---- MODULE Spec2Model ----
(***************************************************************************)
(* FixSwiftForge: the FIX definition loader, message parser, validator and *)
(* message builder.                                                        *)
(*                                                                         *)
(* Text (raw messages, field values, numeric attributes) is a sequence of  *)
(* character codes, so that tokenizing, parseInt, String(n), the checksum  *)
(* and the body length are computed on characters as the code computes     *)
(* them.  Names (field, message, component names, data types) are only     *)
(* ever compared for equality by the code and are TLA+ strings.            *)
(***************************************************************************)
EXTENDS Integers, Sequences, FiniteSets, TLC

(***************************************************************************)
(* Characters and JavaScript string primitives                             *)
(***************************************************************************)
SOH == 1

PIPE == 124

EQUALS == 61

MINUS == 45

DOT == 46

ZERO == 48

IsDigit(c) == c >= 48 /\ c <= 57

IsSpace(c) == c \in {9, 10, 11, 12, 13, 32}

RECURSIVE ToDigits(_)
ToDigits(n) ==
  IF n < 10 THEN <<ZERO + n>> ELSE ToDigits(n \div 10) \o <<ZERO + (n % 10)>>

\* String(n) / `${n}` of an integer
String(n) == IF n < 0 THEN <<MINUS>> \o ToDigits(0 - n) ELSE ToDigits(n)

\* s.substring(from, to) with 0-based from (inclusive) and to (exclusive)
Substring(s, from, to) ==
  LET f == IF from < 0 THEN 0 ELSE IF from > Len(s) THEN Len(s) ELSE from
      t == IF to < 0 THEN 0 ELSE IF to > Len(s) THEN Len(s) ELSE to
      lo == IF f < t THEN f ELSE t
      hi == IF f < t THEN t ELSE f
  IN  SubSeq(s, lo + 1, hi)

\* s.includes(c) for a one-character needle
Includes(s, c) == \E i \in 1..Len(s) : s[i] = c

StartsWithAt(s, needle, i) ==
  /\ i + Len(needle) <= Len(s)
  /\ \A k \in 1..Len(needle) : s[i + k] = needle[k]

\* s.indexOf(needle): 0-based position of the first occurrence, -1 if none
IndexOf(s, needle) ==
  LET hits == {i \in 0..Len(s) : StartsWithAt(s, needle, i)}
  IN  IF hits = {} THEN 0 - 1 ELSE CHOOSE i \in hits : \A j \in hits : i <= j

\* s.lastIndexOf(needle): 0-based position of the last occurrence, -1 if none
LastIndexOf(s, needle) ==
  LET hits == {i \in 0..Len(s) : StartsWithAt(s, needle, i)}
  IN  IF hits = {} THEN 0 - 1 ELSE CHOOSE i \in hits : \A j \in hits : i >= j

\* number of consecutive digits of s starting at 1-based position i
RECURSIVE DigitRun(_, _)
DigitRun(s, i) ==
  IF i <= Len(s) /\ IsDigit(s[i]) THEN 1 + DigitRun(s, i + 1) ELSE 0

RECURSIVE DigitsValue(_, _, _)
DigitsValue(s, i, n) ==
  IF n = 0 THEN 0
  ELSE DigitsValue(s, i, n - 1) * 10 + (s[i + n - 1] - ZERO)

RECURSIVE SkipSpace(_, _)
SkipSpace(s, i) ==
  IF i <= Len(s) /\ IsSpace(s[i]) THEN SkipSpace(s, i + 1) ELSE i

NaN == [isNaN |-> TRUE, n |-> 0]

Num(k) == [isNaN |-> FALSE, n |-> k]

\* parseInt(s, 10): leading white space, an optional sign, then the longest
\* run of digits; NaN when there is no digit
parseInt(s) ==
  LET i0 == SkipSpace(s, 1)
      signed == i0 <= Len(s) /\ s[i0] \in {MINUS, 43}
      neg == signed /\ s[i0] = MINUS
      i1 == IF signed THEN i0 + 1 ELSE i0
      run == DigitRun(s, i1)
  IN  IF run = 0 THEN NaN
      ELSE Num(IF neg THEN 0 - DigitsValue(s, i1, run)
                      ELSE DigitsValue(s, i1, run))

\* s.split(d) for a one-character separator: the pieces between the
\* occurrences of d, in order
Split(s, d) ==
  LET cuts == {i \in 1..Len(s) : s[i] = d}
      n == Cardinality(cuts)
      cutAt == [k \in 0..(n + 1) |->
                  IF k = 0 THEN 0
                  ELSE IF k = n + 1 THEN Len(s) + 1
                  ELSE CHOOSE p \in cuts :
                         Cardinality({q \in cuts : q < p}) = k - 1]
  IN  [k \in 1..(n + 1) |-> SubSeq(s, cutAt[k - 1] + 1, cutAt[k] - 1)]

\* the concatenation of the sequences seqs[lo..hi], in order
RECURSIVE Flatten(_, _, _)
Flatten(seqs, lo, hi) ==
  IF lo > hi THEN <<>>
  ELSE IF lo = hi THEN seqs[lo]
  ELSE LET mid == (lo + hi) \div 2
       IN  Flatten(seqs, lo, mid) \o Flatten(seqs, mid + 1, hi)

\* parts.join(d)
Join(parts, d) ==
  Flatten([i \in DOMAIN parts |->
             IF i = 1 THEN parts[i] ELSE <<d>> \o parts[i]], 1, Len(parts))

\* the sum of the character codes s[lo..hi]
RECURSIVE SumCodes(_, _, _)
SumCodes(s, lo, hi) ==
  IF lo > hi THEN 0
  ELSE IF lo = hi THEN s[lo]
  ELSE LET mid == (lo + hi) \div 2
       IN  SumCodes(s, lo, mid) + SumCodes(s, mid + 1, hi)

\* s.padStart(3, '0')
PadStart3(s) ==
  IF Len(s) >= 3 THEN s
  ELSE IF Len(s) = 2 THEN <<ZERO>> \o s
  ELSE IF Len(s) = 1 THEN <<ZERO, ZERO>> \o s
  ELSE <<ZERO, ZERO, ZERO>>

\* Map / Record helpers: a map is a function, Map.set is Put, delete is Del
EmptyMap == <<>>

Put(m, k, v) == [x \in (DOMAIN m) \cup {k} |-> IF x = k THEN v ELSE m[x]]

Del(m, k) == [x \in (DOMAIN m) \ {k} |-> m[x]]

Range(s) == {s[i] : i \in DOMAIN s}


(***************************************************************************)
(* The schema document, as the XML parser hands it to the loader:          *)
(* attribute values are text, child lists are sequences (empty when the    *)
(* element has no such child).  A missing attribute is the empty text.     *)
(* The document is a FIX 4.4 subset: NewOrderSingle with a component, a    *)
(* repeating group of its own and a component holding a group with a       *)
(* nested group; Heartbeat; header and trailer sections.                   *)
(***************************************************************************)
FieldDecl(number, name, type, values) ==
  [number |-> number, name |-> name, type |-> type, value |-> values]

FieldRefEl(name, required) == [name |-> name, required |-> required]

Element(name, required, fields, groups, components) ==
  [name |-> name, required |-> required, field |-> fields,
   group |-> groups, component |-> components]

SchemaFields ==
  << FieldDecl(String(8), "BeginString", "STRING", <<>>),
     FieldDecl(String(9), "BodyLength", "LENGTH", <<>>),
     FieldDecl(String(10), "CheckSum", "STRING", <<>>),
     FieldDecl(String(35), "MsgType", "STRING", <<>>),
     FieldDecl(String(49), "SenderCompID", "STRING", <<>>),
     FieldDecl(String(56), "TargetCompID", "STRING", <<>>),
     FieldDecl(String(11), "ClOrdID", "STRING", <<>>),
     FieldDecl(String(54), "Side", "CHAR",
               << [enum |-> <<49>>, description |-> "BUY"],
                  [enum |-> <<50>>, description |-> "SELL"] >>),
     FieldDecl(String(55), "Symbol", "STRING", <<>>),
     FieldDecl(String(58), "Text", "STRING", <<>>),
     FieldDecl(String(78), "NoAllocs", "NUMINGROUP", <<>>),
     FieldDecl(String(79), "AllocAccount", "STRING", <<>>),
     FieldDecl(String(80), "AllocQty", "QTY", <<>>),
     FieldDecl(String(453), "NoPartyIDs", "NUMINGROUP", <<>>),
     FieldDecl(String(448), "PartyID", "STRING", <<>>),
     FieldDecl(String(452), "PartyRole", "INT", <<>>),
     FieldDecl(String(802), "NoPartySubIDs", "NUMINGROUP", <<>>),
     FieldDecl(String(523), "PartySubID", "STRING", <<>>) >>

SchemaComponents ==
  << Element("Instrument", "",
             << FieldRefEl("Symbol", "Y") >>, <<>>, <<>>),
     Element("Parties", "", <<>>,
             << Element("NoPartyIDs", "N",
                        << FieldRefEl("PartyID", "N"),
                           FieldRefEl("PartyRole", "N") >>,
                        << Element("NoPartySubIDs", "N",
                                   << FieldRefEl("PartySubID", "N") >>,
                                   <<>>, <<>>) >>,
                        <<>>) >>,
             <<>>) >>

SchemaMessages ==
  << [name |-> "Heartbeat", msgtype |-> <<48>>, msgcat |-> "admin",
      field |-> <<>>, group |-> <<>>, component |-> <<>>],
     [name |-> "NewOrderSingle", msgtype |-> <<68>>, msgcat |-> "app",
      field |-> << FieldRefEl("ClOrdID", "Y"),
                   FieldRefEl("Side", "Y"),
                   FieldRefEl("Text", "N") >>,
      group |-> << Element("NoAllocs", "N",
                           << FieldRefEl("AllocAccount", "N"),
                              FieldRefEl("AllocQty", "N") >>,
                           <<>>, <<>>) >>,
      component |-> << FieldRefEl("Parties", "N"),
                       FieldRefEl("Instrument", "Y") >>] >>

SchemaHeader ==
  Element("", "",
          << FieldRefEl("BeginString", "Y"),
             FieldRefEl("BodyLength", "Y"),
             FieldRefEl("MsgType", "Y"),
             FieldRefEl("SenderCompID", "Y"),
             FieldRefEl("TargetCompID", "Y") >>,
          <<>>, <<>>)

SchemaTrailer ==
  Element("", "", << FieldRefEl("CheckSum", "Y") >>, <<>>, <<>>)

Schema ==
  [wellFormed |-> TRUE, hasFix |-> TRUE,
   major |-> String(4), minor |-> String(4), servicepack |-> <<>>,
   fields |-> SchemaFields, components |-> SchemaComponents,
   messages |-> SchemaMessages, header |-> SchemaHeader,
   trailer |-> SchemaTrailer]

(***************************************************************************)
(* Definition loader                                                       *)
(***************************************************************************)
parseFieldRefs(element) ==
  [i \in 1..Len(element.field) |->
     [name |-> element.field[i].name,
      required |-> element.field[i].required = "Y"]]

parseComponentRefs(element) ==
  [i \in 1..Len(element.component) |->
     [name |-> element.component[i].name,
      required |-> element.component[i].required = "Y"]]

\* parseGroups naming the counter after the first field reference
RECURSIVE parseGroupsFirstField(_)
parseGroupsFirstField(element) ==
  [i \in 1..Len(element.group) |->
     LET g == element.group[i]
     IN  [name |-> g.name,
          required |-> g.required = "Y",
          counterField |-> IF Len(g.field) > 0 THEN g.field[1].name
                           ELSE g.name,
          fields |-> parseFieldRefs(g),
          groups |-> parseGroupsFirstField(g),
          components |-> parseComponentRefs(g)]]

RECURSIVE parseGroups(_)
parseGroups(element) ==
  [i \in 1..Len(element.group) |->
     LET g == element.group[i]
     IN  [name |-> g.name,
          required |-> g.required = "Y",
          counterField |-> g.name,
          fields |-> parseFieldRefs(g),
          groups |-> parseGroups(g),
          components |-> parseComponentRefs(g)]]

\* Map.set over a list: of the elements at the positions ok, the last one
\* under key k is the one kept
LastWith(keys, ok, k) ==
  CHOOSE i \in ok : keys[i] = k /\ \A j \in ok : keys[j] = k => j <= i

LoadValues(vs) ==
  LET enums == [i \in DOMAIN vs |-> vs[i].enum]
  IN  [e \in Range(enums) |-> vs[LastWith(enums, DOMAIN vs, e)].description]

\* a <fields> loop that keeps a declaration without a type
LoadFieldsKeepsUntyped(decls) ==
  LET ok == { i \in DOMAIN decls :
                /\ ~parseInt(decls[i].number).isNaN
                /\ decls[i].name # "" }
      tags == [i \in DOMAIN decls |-> parseInt(decls[i].number).n]
      names == [i \in DOMAIN decls |-> decls[i].name]
      fieldDef == [i \in DOMAIN decls |->
                     [tag |-> tags[i], name |-> decls[i].name,
                      type |-> decls[i].type,
                      values |-> LoadValues(decls[i].value)]]
  IN  [fieldsByTag |->
         [t \in { tags[i] : i \in ok } |-> fieldDef[LastWith(tags, ok, t)]],
       fieldsByName |->
         [n \in { names[i] : i \in ok } |-> fieldDef[LastWith(names, ok, n)]]]

\* the <fields> loop: a declaration without a numeric tag, a name or a type
\* is skipped; a later declaration replaces an earlier one under its key
LoadFields(decls) ==
  LET ok == { i \in DOMAIN decls :
                /\ ~parseInt(decls[i].number).isNaN
                /\ decls[i].name # ""
                /\ decls[i].type # "" }
      tags == [i \in DOMAIN decls |-> parseInt(decls[i].number).n]
      names == [i \in DOMAIN decls |-> decls[i].name]
      fieldDef == [i \in DOMAIN decls |->
                     [tag |-> tags[i], name |-> decls[i].name,
                      type |-> decls[i].type,
                      values |-> LoadValues(decls[i].value)]]
  IN  [fieldsByTag |->
         [t \in { tags[i] : i \in ok } |-> fieldDef[LastWith(tags, ok, t)]],
       fieldsByName |->
         [n \in { names[i] : i \in ok } |-> fieldDef[LastWith(names, ok, n)]]]

RECURSIVE LoadComponents(_, _, _)
LoadComponents(cs, i, components) ==
  IF i > Len(cs) THEN components
  ELSE IF cs[i].name = "" THEN LoadComponents(cs, i + 1, components)
  ELSE LoadComponents(cs, i + 1,
         Put(components, cs[i].name,
             [name |-> cs[i].name,
              fields |-> parseFieldRefs(cs[i]),
              groups |-> parseGroups(cs[i]),
              components |-> parseComponentRefs(cs[i])]))

\* the <messages> loop; keys keeps the insertion order of messagesByType
RECURSIVE LoadMessages(_, _, _, _, _)
LoadMessages(ms, i, byType, keys, byName) ==
  IF i > Len(ms)
  THEN [messagesByType |-> byType, messagesByTypeKeys |-> keys,
        messagesByName |-> byName]
  ELSE LET m == ms[i]
       IN  IF m.name = "" \/ m.msgtype = <<>>
           THEN LoadMessages(ms, i + 1, byType, keys, byName)
           ELSE LET msgDef == [name |-> m.name, msgtype |-> m.msgtype,
                               msgcat |-> IF m.msgcat = "" THEN "app"
                                          ELSE m.msgcat,
                               fields |-> parseFieldRefs(m),
                               groups |-> parseGroups(m),
                               components |-> parseComponentRefs(m)]
                IN  LoadMessages(ms, i + 1, Put(byType, m.msgtype, msgDef),
                      IF m.msgtype \in DOMAIN byType THEN keys
                      ELSE Append(keys, m.msgtype),
                      Put(byName, m.name, msgDef))

\* loadDefinitionFromXml: thrown is "" on success and the definition is
\* returned, otherwise thrown names the failure and nothing is returned
loadDefinitionFromXml(xml) ==
  IF ~xml.wellFormed THEN [thrown |-> "Failed to parse FIX XML"]
  ELSE IF ~xml.hasFix THEN [thrown |-> "missing root <fix> element"]
  ELSE LET major == parseInt(xml.major)
           minor == parseInt(xml.minor)
           servicepack == parseInt(IF xml.servicepack = <<>> THEN <<ZERO>>
                                   ELSE xml.servicepack)
           fs == LoadFields(xml.fields)
           ms == LoadMessages(xml.messages, 1, EmptyMap, <<>>, EmptyMap)
       IN  IF major.isNaN \/ minor.isNaN
           THEN [thrown |-> "<fix> must have major and minor attributes"]
           ELSE [thrown |-> "",
                 definition |->
                   [major |-> major.n, minor |-> minor.n,
                    servicepack |-> servicepack,
                    fieldsByTag |-> fs.fieldsByTag,
                    fieldsByName |-> fs.fieldsByName,
                    messagesByType |-> ms.messagesByType,
                    messagesByTypeKeys |-> ms.messagesByTypeKeys,
                    messagesByName |-> ms.messagesByName,
                    components |-> LoadComponents(xml.components, 1, EmptyMap),
                    header |-> [fields |-> parseFieldRefs(xml.header),
                                groups |-> parseGroups(xml.header),
                                components |-> parseComponentRefs(xml.header)],
                    trailer |-> [fields |-> parseFieldRefs(xml.trailer),
                                 groups |-> parseGroups(xml.trailer),
                                 components |-> parseComponentRefs(xml.trailer)]]]

\* FIXParser.fromXml: the definition every operation below is bound to
Definition == loadDefinitionFromXml(Schema).definition

(***************************************************************************)
(* Message parser                                                          *)
(***************************************************************************)
detectDelimiter(raw) ==
  IF Includes(raw, SOH) THEN SOH
  ELSE IF Includes(raw, PIPE) THEN PIPE
  ELSE SOH

\* a tokenizer that cuts the value one character early, keeping the "="
PairOfKeepsEquals(part) ==
  LET eqIdx == IndexOf(part, <<EQUALS>>)
      tag == parseInt(Substring(part, 0, eqIdx))
      value == Substring(part, eqIdx, Len(part))
  IN  IF eqIdx = 0 - 1 THEN <<>>
      ELSE IF tag.isNaN THEN <<>>
      ELSE << [tag |-> tag.n, value |-> value] >>

\* the pair a segment yields, as a sequence of zero or one pair
PairOf(part) ==
  LET eqIdx == IndexOf(part, <<EQUALS>>)
      tag == parseInt(Substring(part, 0, eqIdx))
      value == Substring(part, eqIdx + 1, Len(part))
  IN  IF eqIdx = 0 - 1 THEN <<>>
      ELSE IF tag.isNaN THEN <<>>
      ELSE << [tag |-> tag.n, value |-> value] >>

\* the loop over the segments: an empty segment is skipped
PairsOf(parts) ==
  Flatten([i \in DOMAIN parts |->
             IF Len(parts[i]) = 0 THEN <<>> ELSE PairOf(parts[i])],
          1, Len(parts))

splitFields(raw, delimiter) == PairsOf(Split(raw, delimiter))

ComponentFieldNames(crefs, definition) ==
  UNION { IF crefs[i].name \in DOMAIN definition.components
          THEN { f.name : f \in Range(definition.components[crefs[i].name].fields) }
          ELSE {} : i \in DOMAIN crefs }

collectSectionFieldNames(section, definition) ==
  { f.name : f \in Range(section.fields) }
    \cup ComponentFieldNames(section.components, definition)

Scalar(v) == [kind |-> "value", value |-> v]

Group(es) == [kind |-> "group", entries |-> es]

NotFound == [found |-> FALSE]

Found(d) == [found |-> TRUE, def |-> d]

\* the first group of the list whose counterField is fieldName
FirstGroupWithCounter(groups, fieldName) ==
  LET hits == {i \in DOMAIN groups : groups[i].counterField = fieldName}
  IN  IF hits = {} THEN NotFound
      ELSE Found(groups[CHOOSE i \in hits : \A j \in hits : i <= j])

\* the names of the fields that belong to a group: its own field references
\* and the fields of the components it refers to
groupFieldNames(groupDef, definition) ==
  { f.name : f \in Range(groupDef.fields) }
    \cup ComponentFieldNames(groupDef.components, definition)

\* parseGroup: GroupLoop is the for loop over entries, EntryLoop the while
\* loop that fills one entry; idx is 0-based as in the source
RECURSIVE GroupLoop(_, _, _, _, _, _, _)
RECURSIVE EntryLoop(_, _, _, _, _, _)
RECURSIVE EntryLoopNoBoundary(_, _, _, _, _, _)
\* an entry loop that does not close the entry when the first field returns
EntryLoopNoBoundary(pairs, idx, groupDef, definition, entry, isFirstField) ==
  IF idx >= Len(pairs) THEN [entry |-> entry, idx |-> idx]
  ELSE
    LET tag == pairs[idx + 1].tag
        value == pairs[idx + 1].value
        stop == [entry |-> entry, idx |-> idx]
    IN  IF tag \notin DOMAIN definition.fieldsByTag THEN stop
        ELSE
          LET fieldDef == definition.fieldsByTag[tag]
          IN  IF fieldDef.name \notin groupFieldNames(groupDef, definition)
              THEN stop
              ELSE EntryLoopNoBoundary(pairs, idx + 1, groupDef, definition,
                     Put(entry, fieldDef.name, Scalar(value)), FALSE)

EntryLoop(pairs, idx, groupDef, definition, entry, isFirstField) ==
  IF idx >= Len(pairs) THEN [entry |-> entry, idx |-> idx]
  ELSE
    LET tag == pairs[idx + 1].tag
        value == pairs[idx + 1].value
        stop == [entry |-> entry, idx |-> idx]
    IN  IF tag \notin DOMAIN definition.fieldsByTag THEN stop
        ELSE
          LET fieldDef == definition.fieldsByTag[tag]
              nested == FirstGroupWithCounter(groupDef.groups, fieldDef.name)
              nestedCount == parseInt(value)
          IN  IF /\ ~isFirstField
                 /\ Len(groupDef.fields) > 0
                 /\ fieldDef.name = groupDef.fields[1].name
              THEN stop
              ELSE IF fieldDef.name \notin groupFieldNames(groupDef, definition)
              THEN stop
              ELSE IF nested.found /\ ~nestedCount.isNaN /\ nestedCount.n > 0
              THEN LET result == GroupLoop(pairs, idx + 1, 0, nestedCount.n,
                                           nested.def, definition, <<>>)
                   IN  EntryLoop(pairs, result.nextIdx, groupDef, definition,
                                 Put(entry, fieldDef.name, Group(result.entries)),
                                 FALSE)
              ELSE EntryLoop(pairs, idx + 1, groupDef, definition,
                             Put(entry, fieldDef.name, Scalar(value)), FALSE)

RECURSIVE GroupLoopExtra(_, _, _, _, _, _, _)
\* a group loop that runs one iteration too many
GroupLoopExtra(pairs, idx, i, count, groupDef, definition, entries) ==
  IF i <= count /\ idx < Len(pairs)
  THEN LET r == EntryLoop(pairs, idx, groupDef, definition, EmptyMap, TRUE)
       IN  GroupLoopExtra(pairs, r.idx, i + 1, count, groupDef, definition,
                          Append(entries, r.entry))
  ELSE [entries |-> entries, nextIdx |-> idx]

GroupLoop(pairs, idx, i, count, groupDef, definition, entries) ==
  IF i < count /\ idx < Len(pairs)
  THEN LET r == EntryLoop(pairs, idx, groupDef, definition, EmptyMap, TRUE)
       IN  GroupLoop(pairs, r.idx, i + 1, count, groupDef, definition,
                     Append(entries, r.entry))
  ELSE [entries |-> entries, nextIdx |-> idx]

\* parseGroup that reports one pair more than it read
parseGroupOverruns(pairs, startIdx, count, groupDef, definition) ==
  [entries |-> GroupLoop(pairs, startIdx, 0, count, groupDef, definition,
                         <<>>).entries,
   nextIdx |-> GroupLoop(pairs, startIdx, 0, count, groupDef, definition,
                         <<>>).nextIdx + 1]

parseGroup(pairs, startIdx, count, groupDef, definition) ==
  GroupLoop(pairs, startIdx, 0, count, groupDef, definition, <<>>)

ComponentGroups(crefs, definition, fieldName, i) ==
  IF crefs[i].name \in DOMAIN definition.components
  THEN FirstGroupWithCounter(definition.components[crefs[i].name].groups, fieldName)
  ELSE NotFound

\* findGroupDef over a message definition or the header section
\* findGroupDef looking through every message when none is given
findGroupDefAnyMessage(fieldName, msgDef, definition) ==
  LET owners == { t \in DOMAIN definition.messagesByType :
                    FirstGroupWithCounter(definition.messagesByType[t].groups,
                                          fieldName).found }
  IN  IF msgDef.found
      THEN FirstGroupWithCounter(msgDef.def.groups, fieldName)
      ELSE IF owners = {} THEN NotFound
      ELSE FirstGroupWithCounter(
             definition.messagesByType[CHOOSE t \in owners : TRUE].groups,
             fieldName)

findGroupDef(fieldName, msgDef, definition) ==
  IF ~msgDef.found THEN NotFound
  ELSE
    LET own == FirstGroupWithCounter(msgDef.def.groups, fieldName)
        crefs == msgDef.def.components
        hits == {i \in DOMAIN crefs :
                   ComponentGroups(crefs, definition, fieldName, i).found}
    IN  IF own.found THEN own
        ELSE IF hits = {} THEN NotFound
        ELSE ComponentGroups(crefs, definition, fieldName,
                             CHOOSE i \in hits : \A j \in hits : i <= j)

\* header names without the standard ones that parseMessage always adds
headerFieldNamesDeclaredOnly(definition) ==
  collectSectionFieldNames(definition.header, definition)

headerFieldNames(definition) ==
  collectSectionFieldNames(definition.header, definition)
    \cup {"BeginString", "BodyLength", "MsgType", "SenderCompID",
          "TargetCompID", "MsgSeqNum", "SendingTime"}

trailerFieldNames(definition) ==
  collectSectionFieldNames(definition.trailer, definition) \cup {"CheckSum"}

\* the locals of parseMessage before the loop
ParseStart ==
  [idx |-> 0, fields |-> <<>>, header |-> EmptyMap, body |-> EmptyMap,
   trailer |-> EmptyMap, beginString |-> <<>>, bodyLength |-> Num(0),
   checkSum |-> <<>>, msgType |-> <<>>, msgTypeName |-> "",
   msgDef |-> NotFound]

\* one iteration of the while loop of parseMessage
ParseStep(pairs, st, definition) ==
  LET tag == pairs[st.idx + 1].tag
      value == pairs[st.idx + 1].value
      known == tag \in DOMAIN definition.fieldsByTag
      fieldName == IF known THEN definition.fieldsByTag[tag].name
                   ELSE "Tag" \o ToString(tag)
      hasEnum == known /\ value \in DOMAIN definition.fieldsByTag[tag].values
      parsedField == [tag |-> tag, name |-> fieldName, value |-> value,
                      enumDescription |->
                        IF hasEnum
                        THEN <<definition.fieldsByTag[tag].values[value]>>
                        ELSE <<>>]
      newDef == IF value \in DOMAIN definition.messagesByType
                THEN Found(definition.messagesByType[value]) ELSE NotFound
      s1 == [st EXCEPT
               !.fields = Append(@, parsedField),
               !.beginString = IF tag = 8 THEN value ELSE @,
               !.bodyLength = IF tag = 9 THEN parseInt(value) ELSE @,
               !.checkSum = IF tag = 10 THEN value ELSE @,
               !.msgType = IF tag = 35 THEN value ELSE @,
               !.msgDef = IF tag = 35 THEN newDef ELSE @,
               !.msgTypeName = IF tag = 35 /\ newDef.found
                               THEN newDef.def.name ELSE @]
      fromMsg == findGroupDef(fieldName, s1.msgDef, definition)
      groupDef == IF fromMsg.found THEN fromMsg
                  ELSE findGroupDef(fieldName, Found(definition.header),
                                    definition)
      count == parseInt(value)
  IN  IF fieldName \in headerFieldNames(definition)
      THEN [s1 EXCEPT !.header = Put(@, fieldName, value), !.idx = @ + 1]
      ELSE IF fieldName \in trailerFieldNames(definition)
      THEN [s1 EXCEPT !.trailer = Put(@, fieldName, value), !.idx = @ + 1]
      ELSE IF /\ groupDef.found
              /\ known
              /\ definition.fieldsByTag[tag].type = "NUMINGROUP"
              /\ ~count.isNaN
              /\ count.n > 0
      THEN LET result == parseGroup(pairs, st.idx + 1, count.n,
                                    groupDef.def, definition)
           IN  [s1 EXCEPT !.body = Put(@, fieldName, Group(result.entries)),
                          !.idx = result.nextIdx]
      ELSE [s1 EXCEPT !.body = Put(@, fieldName, Scalar(value)),
                      !.idx = @ + 1]

RECURSIVE ParseLoop(_, _, _)
ParseLoop(pairs, st, definition) ==
  IF st.idx < Len(pairs)
  THEN ParseLoop(pairs, ParseStep(pairs, st, definition), definition)
  ELSE st

\* parseMessage: thrown is "" and message the ParsedMessage, or thrown is
\* the error message and nothing is returned
ParsedMessage(st) ==
  [beginString |-> st.beginString, msgType |-> st.msgType,
   msgTypeName |-> st.msgTypeName, bodyLength |-> st.bodyLength,
   checkSum |-> st.checkSum, header |-> st.header, body |-> st.body,
   trailer |-> st.trailer, fields |-> st.fields]

\* a parse that has no check for an empty list of pairs
ParsePairsNeverFails(pairs, definition) ==
  [thrown |-> "",
   message |-> ParsedMessage(ParseLoop(pairs, ParseStart, definition))]

ParsePairs(pairs, definition) ==
  IF Len(pairs) = 0
  THEN [thrown |-> "Empty or unparseable FIX message"]
  ELSE [thrown |-> "",
        message |-> ParsedMessage(ParseLoop(pairs, ParseStart, definition))]

parseMessage(raw, definition) ==
  ParsePairs(splitFields(raw, detectDelimiter(raw)), definition)

(***************************************************************************)
(* Validator                                                               *)
(***************************************************************************)
CHECKSUM_TAG == <<49, 48, 61>>  \* the text "10="

\* a checksum that leaves out the delimiter in front of the last "10="
computeChecksumNoDelimiter(raw) ==
  LET delimiter == IF Includes(raw, SOH) THEN SOH ELSE 124
      checksumTagStart == LastIndexOf(raw, <<delimiter, 49, 48, 61>>)
      content == IF checksumTagStart # 0 - 1
                 THEN Substring(raw, 0, checksumTagStart) ELSE raw
  IN  PadStart3(String(SumCodes(content, 1, Len(content)) % 256))

\* computeChecksum of the validator: the sum of the character codes up to
\* and including the delimiter in front of the last "10=", modulo 256
computeChecksum(raw) ==
  LET delimiter == IF Includes(raw, SOH) THEN SOH ELSE PIPE
      checksumTagStart == LastIndexOf(raw, <<delimiter>> \o CHECKSUM_TAG)
      content == IF checksumTagStart # 0 - 1
                 THEN Substring(raw, 0, checksumTagStart + 1) ELSE raw
  IN  PadStart3(String(SumCodes(content, 1, Len(content)) % 256))

\* raw.match(/9=\d+/): 0-based start and the text of the leftmost match
Tag9Match(raw) ==
  LET hits == {i \in 1..Len(raw) :
                 /\ raw[i] = 57
                 /\ i + 2 <= Len(raw)
                 /\ raw[i + 1] = EQUALS
                 /\ IsDigit(raw[i + 2])}
      p == CHOOSE i \in hits : \A j \in hits : i <= j
  IN  IF hits = {} THEN [matched |-> FALSE]
      ELSE [matched |-> TRUE,
            text |-> SubSeq(raw, p, p + 1 + DigitRun(raw, p + 2))]

computeBodyLength(raw) ==
  LET delimiter == IF Includes(raw, SOH) THEN SOH ELSE PIPE
      tag9Match == Tag9Match(raw)
      bodyStart == IndexOf(raw, tag9Match.text) + Len(tag9Match.text) + 1
      bodyEnd == LastIndexOf(raw, <<delimiter>> \o CHECKSUM_TAG)
  IN  IF ~tag9Match.matched THEN 0
      ELSE IF bodyEnd = 0 - 1 THEN 0
      ELSE bodyEnd - bodyStart + 1

RequiredNames(fields) ==
  SelectSeq([i \in DOMAIN fields |-> fields[i]], LAMBDA f : f.required)

RECURSIVE RequiredOfComponents(_, _, _)
RequiredOfComponents(crefs, i, definition) ==
  IF i > Len(crefs) THEN <<>>
  ELSE (IF crefs[i].required /\ crefs[i].name \in DOMAIN definition.components
        THEN RequiredNames(definition.components[crefs[i].name].fields)
        ELSE <<>>)
       \o RequiredOfComponents(crefs, i + 1, definition)

\* collectRequiredFields: the names, in declaration order
collectRequiredFields(section, definition) ==
  LET req == RequiredNames(section.fields)
               \o RequiredOfComponents(section.components, 1, definition)
  IN  [i \in DOMAIN req |-> req[i].name]

\* /^-?\d+$/
IsIntegerText(value) ==
  LET i == IF Len(value) > 0 /\ value[1] = MINUS THEN 2 ELSE 1
  IN  DigitRun(value, i) > 0 /\ i + DigitRun(value, i) = Len(value) + 1

\* /^-?\d+(\.\d+)?$/
IsNumericText(value) ==
  LET i == IF Len(value) > 0 /\ value[1] = MINUS THEN 2 ELSE 1
      n == DigitRun(value, i)
      j == i + n
  IN  /\ n > 0
      /\ \/ j = Len(value) + 1
         \/ /\ j <= Len(value)
            /\ value[j] = DOT
            /\ DigitRun(value, j + 1) > 0
            /\ j + 1 + DigitRun(value, j + 1) = Len(value) + 1

\* validateFieldType: "" when the value is acceptable, else the complaint
validateFieldType(value, type) ==
  IF type \in {"INT", "SEQNUM", "NUMINGROUP", "LENGTH"}
  THEN IF ~IsIntegerText(value) THEN "expected integer" ELSE ""
  ELSE IF type \in {"PRICE", "QTY", "AMT", "FLOAT", "PERCENTAGE", "PRICEOFFSET"}
  THEN IF ~IsNumericText(value) THEN "expected numeric" ELSE ""
  ELSE IF type = "BOOLEAN"
  THEN IF value # <<89>> /\ value # <<78>> THEN "expected Y or N" ELSE ""
  ELSE IF type = "CHAR"
  THEN IF Len(value) # 1 THEN "expected single char" ELSE ""
  ELSE ""

validateFieldEnum(value, fieldName, definition) ==
  IF fieldName \notin DOMAIN definition.fieldsByName THEN ""
  ELSE IF DOMAIN definition.fieldsByName[fieldName].values = {} THEN ""
  ELSE IF value \notin DOMAIN definition.fieldsByName[fieldName].values
  THEN "not in allowed values"
  ELSE ""

\* a ValidationError; tag and field are optional (empty or one element)
Issue(tag, field, message, severity) ==
  [tag |-> tag, field |-> field, message |-> message, severity |-> severity]

TagOfName(fieldName, definition) ==
  IF fieldName \in DOMAIN definition.fieldsByName
  THEN <<definition.fieldsByName[fieldName].tag>> ELSE <<>>

RECURSIVE HeaderErrorsSkipStandard(_, _, _, _)
\* a header check that takes every standard header field for present
HeaderErrorsSkipStandard(required, i, msg, definition) ==
  IF i > Len(required) THEN <<>>
  ELSE (IF required[i] \in {"BeginString", "BodyLength", "MsgType",
                            "SenderCompID", "TargetCompID", "MsgSeqNum",
                            "SendingTime"}
        THEN <<>>
        ELSE IF required[i] \notin DOMAIN msg.header
                  \/ msg.header[required[i]] = <<>>
        THEN << [tag |-> <<>>, field |-> <<required[i]>>,
                 message |-> "Required header field is missing",
                 severity |-> "error"] >>
        ELSE <<>>)
       \o HeaderErrorsSkipStandard(required, i + 1, msg, definition)

RECURSIVE HeaderErrors(_, _, _, _)
HeaderErrors(required, i, msg, definition) ==
  IF i > Len(required) THEN <<>>
  ELSE (IF required[i] \in {"BeginString", "BodyLength", "MsgType"} THEN <<>>
        ELSE IF required[i] \notin DOMAIN msg.header
                  \/ msg.header[required[i]] = <<>>
        THEN << Issue(TagOfName(required[i], definition), <<required[i]>>,
                      "Required header field is missing", "error") >>
        ELSE <<>>)
       \o HeaderErrors(required, i + 1, msg, definition)

RECURSIVE BodyErrors(_, _, _, _)
BodyErrors(required, i, msg, definition) ==
  IF i > Len(required) THEN <<>>
  ELSE (IF required[i] \notin DOMAIN msg.body
        THEN << Issue(TagOfName(required[i], definition), <<required[i]>>,
                      "Required field is missing for message type", "error") >>
        ELSE <<>>)
       \o BodyErrors(required, i + 1, msg, definition)

\* the loop over msg.fields: the errors and warnings one field adds
FieldIssues(field, definition) ==
  IF field.tag \notin DOMAIN definition.fieldsByTag
  THEN [errors |-> <<>>,
        warnings |-> << Issue(<<field.tag>>, <<field.name>>,
                              "Unknown field tag", "warning") >>]
  ELSE LET fieldDef == definition.fieldsByTag[field.tag]
           typeError == validateFieldType(field.value, fieldDef.type)
           enumError == validateFieldEnum(field.value, fieldDef.name, definition)
       IN  [errors |-> IF typeError # ""
                       THEN << Issue(<<field.tag>>, <<fieldDef.name>>,
                                     typeError, "error") >>
                       ELSE <<>>,
            warnings |-> IF enumError # ""
                         THEN << Issue(<<field.tag>>, <<fieldDef.name>>,
                                       enumError, "warning") >>
                         ELSE <<>>]

FieldErrors(fields, definition) ==
  Flatten([i \in DOMAIN fields |-> FieldIssues(fields[i], definition).errors],
          1, Len(fields))

FieldWarnings(fields, definition) ==
  Flatten([i \in DOMAIN fields |-> FieldIssues(fields[i], definition).warnings],
          1, Len(fields))

\* the ValidationResult of a list of errors and a list of warnings
\* a result that is valid only without warnings
ValidationResultNoWarnings(errors, warnings) ==
  [valid |-> Len(errors) = 0 /\ Len(warnings) = 0,
   errors |-> errors, warnings |-> warnings]

ValidationResult(errors, warnings) ==
  [valid |-> Len(errors) = 0, errors |-> errors, warnings |-> warnings]

\* a validateParsed that goes on to the field checks for an unknown type
validateParsedChecksUnknown(msg, definition) ==
  IF msg.msgType \notin DOMAIN definition.messagesByType
  THEN ValidationResult(
         << Issue(<<35>>, <<"MsgType">>, "Unknown message type", "error") >>
         \o FieldErrors(msg.fields, definition),
         FieldWarnings(msg.fields, definition))
  ELSE ValidationResult(
         HeaderErrors(collectRequiredFields(definition.header, definition),
                      1, msg, definition)
         \o BodyErrors(collectRequiredFields(
                         definition.messagesByType[msg.msgType], definition),
                       1, msg, definition)
         \o FieldErrors(msg.fields, definition),
         FieldWarnings(msg.fields, definition))

validateParsed(msg, definition) ==
  IF msg.msgType \notin DOMAIN definition.messagesByType
  THEN [valid |-> FALSE,
        errors |-> << Issue(<<35>>, <<"MsgType">>, "Unknown message type",
                            "error") >>,
        warnings |-> <<>>]
  ELSE ValidationResult(
         HeaderErrors(collectRequiredFields(definition.header, definition),
                      1, msg, definition)
         \o BodyErrors(collectRequiredFields(
                         definition.messagesByType[msg.msgType], definition),
                       1, msg, definition)
         \o FieldErrors(msg.fields, definition),
         FieldWarnings(msg.fields, definition))

\* framing checks that report the body length mismatch as an error
FramingCheckedLengthError(parsed, expectedChecksum, expectedBodyLength, parsedResult) ==
  ValidationResult(
    (IF parsed.checkSum # <<>> /\ parsed.checkSum # expectedChecksum
     THEN << Issue(<<10>>, <<"CheckSum">>, "Invalid checksum", "error") >>
     ELSE <<>>)
    \o (IF /\ ~parsed.bodyLength.isNaN
           /\ parsed.bodyLength.n # 0
           /\ parsed.bodyLength.n # expectedBodyLength
        THEN << Issue(<<9>>, <<"BodyLength">>, "BodyLength mismatch",
                      "error") >>
        ELSE <<>>)
    \o parsedResult.errors,
    parsedResult.warnings)

\* validateRaw after the parse: the framing checks, then validateParsed
\* framing checks that compare the checksum whether the text declares one
\* or not
FramingCheckedAlways(parsed, expectedChecksum, expectedBodyLength, parsedResult) ==
  ValidationResult(
    (IF parsed.checkSum # expectedChecksum
     THEN << Issue(<<10>>, <<"CheckSum">>, "Invalid checksum", "error") >>
     ELSE <<>>)
    \o parsedResult.errors,
    (IF /\ ~parsed.bodyLength.isNaN
        /\ parsed.bodyLength.n # 0
        /\ parsed.bodyLength.n # expectedBodyLength
     THEN << Issue(<<9>>, <<"BodyLength">>, "BodyLength mismatch",
                   "warning") >>
     ELSE <<>>)
    \o parsedResult.warnings)

FramingChecked(parsed, expectedChecksum, expectedBodyLength, parsedResult) ==
  ValidationResult(
    (IF parsed.checkSum # <<>> /\ parsed.checkSum # expectedChecksum
     THEN << Issue(<<10>>, <<"CheckSum">>, "Invalid checksum", "error") >>
     ELSE <<>>)
    \o parsedResult.errors,
    (IF /\ ~parsed.bodyLength.isNaN
        /\ parsed.bodyLength.n # 0
        /\ parsed.bodyLength.n # expectedBodyLength
     THEN << Issue(<<9>>, <<"BodyLength">>, "BodyLength mismatch",
                   "warning") >>
     ELSE <<>>)
    \o parsedResult.warnings)

\* a validateRaw that reports the failed parse as a warning
ValidateParseWarnsOnly(p, raw, definition) ==
  IF p.thrown # ""
  THEN [valid |-> TRUE,
        errors |-> <<>>,
        warnings |-> << Issue(<<>>, <<>>, "Failed to parse message",
                              "warning") >>]
  ELSE FramingChecked(p.message, computeChecksum(raw),
                      computeBodyLength(raw),
                      validateParsed(p.message, definition))

ValidateParse(p, raw, definition) ==
  IF p.thrown # ""
  THEN [valid |-> FALSE,
        errors |-> << Issue(<<>>, <<>>, "Failed to parse message", "error") >>,
        warnings |-> <<>>]
  ELSE FramingChecked(p.message, computeChecksum(raw),
                      computeBodyLength(raw),
                      validateParsed(p.message, definition))

validateRaw(raw, definition) ==
  ValidateParse(parseMessage(raw, definition), raw, definition)

(***************************************************************************)
(* Message builder                                                         *)
(***************************************************************************)
\* a checksum written without its leading zeros
builderComputeChecksumUnpadded(content) ==
  String(SumCodes(content, 1, Len(content)) % 256)

\* computeChecksum of the builder: over the whole text it is given
builderComputeChecksum(content) ==
  PadStart3(String(SumCodes(content, 1, Len(content)) % 256))

\* beginString as the constructor derives it from the definition version
BeginStringOf(definition) ==
  IF definition.major = 5 THEN <<70, 73, 88, 84, 46, 49, 46, 49>>
  ELSE <<70, 73, 88, 46>> \o String(definition.major) \o <<DOT>>
         \o String(definition.minor)

RECURSIVE SortTagsDescending(_)
\* a sort with the comparator the wrong way round
SortTagsDescending(tags) ==
  IF tags = {} THEN <<>>
  ELSE LET m == CHOOSE t \in tags : \A u \in tags : t >= u
       IN  <<m>> \o SortTagsDescending(tags \ {m})

\* Array.sort((a, b) => a - b) of a set of tags
RECURSIVE SortTags(_)
SortTags(tags) ==
  IF tags = {} THEN <<>>
  ELSE LET m == CHOOSE t \in tags : \A u \in tags : t <= u
       IN  <<m>> \o SortTags(tags \ {m})

\* build's body with the message type among the other tags, by number
BodyPartsTypeInTagOrder(fieldValues) ==
  LET sortedTags == SortTags(DOMAIN fieldValues \ {8, 9, 10})
  IN  [i \in DOMAIN sortedTags |->
         String(sortedTags[i]) \o <<EQUALS>> \o fieldValues[sortedTags[i]]]

BodyParts(fieldValues) ==
  LET sortedTags == SortTags(DOMAIN fieldValues \ {35, 8, 9, 10})
  IN  (IF 35 \in DOMAIN fieldValues /\ fieldValues[35] # <<>>
       THEN << <<51, 53, EQUALS>> \o fieldValues[35] >> ELSE <<>>)
      \o [i \in DOMAIN sortedTags |->
            String(sortedTags[i]) \o <<EQUALS>> \o fieldValues[sortedTags[i]]]

\* MessageBuilder.build
build(fieldValues, beginString) ==
  LET bodyStr == Join(BodyParts(fieldValues), SOH) \o <<SOH>>
      bodyLength == Len(bodyStr)
      prefix == <<56, EQUALS>> \o beginString \o <<SOH>>
                  \o <<57, EQUALS>> \o String(bodyLength) \o <<SOH>>
      withoutChecksum == prefix \o bodyStr
      checksum == builderComputeChecksum(withoutChecksum)
  IN  withoutChecksum \o CHECKSUM_TAG \o checksum \o <<SOH>>

\* a constructor that falls back to the first known type instead of failing
createBuilderFallback(definition, msgType) ==
  LET known == IF msgType \in DOMAIN definition.messagesByType
               THEN msgType ELSE definition.messagesByTypeKeys[1]
  IN  [thrown |-> "",
       session |-> [exists |-> TRUE,
                    msgDef |-> definition.messagesByType[known],
                    beginString |->
                      <<70, 73, 88, 46>> \o String(definition.major)
                        \o <<46>> \o String(definition.minor),
                    fieldValues |-> Put(EmptyMap, 35, msgType)]]

\* MessageBuilder constructor behind createBuilder: thrown is "" and the
\* session is returned, or thrown is the error and available lists the
\* type codes the message enumerates
createBuilder(definition, msgType) ==
  IF msgType \notin DOMAIN definition.messagesByType
  THEN [thrown |-> "Unknown message type", msgType |-> msgType,
        available |-> definition.messagesByTypeKeys]
  ELSE [thrown |-> "",
        session |-> [exists |-> TRUE,
                     msgDef |-> definition.messagesByType[msgType],
                     beginString |-> BeginStringOf(definition),
                     fieldValues |-> Put(EmptyMap, 35, msgType)]]

\* a setTag that forgets to protect the checksum tag
setTagUnprotectedChecksum(fieldValues, tag, value) ==
  IF tag = 8 \/ tag = 9
  THEN [thrown |-> "is managed automatically and cannot be set manually",
        tag |-> tag,
        name |-> IF tag = 8 THEN "BeginString" ELSE "BodyLength",
        fieldValues |-> fieldValues]
  ELSE [thrown |-> "", tag |-> tag, name |-> "",
        fieldValues |-> [x \in (DOMAIN fieldValues) \cup {tag} |->
                           IF x = tag THEN value ELSE fieldValues[x]]]

\* setTag: thrown is "" and fieldValues the new map, or thrown names the
\* protected field and the map is not touched
setTag(fieldValues, tag, value) ==
  IF tag = 8 \/ tag = 9 \/ tag = 10
  THEN [thrown |-> "is managed automatically and cannot be set manually",
        tag |-> tag,
        name |-> IF tag = 8 THEN "BeginString"
                 ELSE IF tag = 9 THEN "BodyLength" ELSE "CheckSum",
        fieldValues |-> fieldValues]
  ELSE [thrown |-> "", tag |-> tag, name |-> "",
        fieldValues |-> Put(fieldValues, tag, value)]

\* set (and update, its alias)
set(definition, fieldValues, name, value) ==
  IF name \notin DOMAIN definition.fieldsByName
  THEN [thrown |-> "Unknown field name", tag |-> 0, name |-> name,
        fieldValues |-> fieldValues]
  ELSE setTag(fieldValues, definition.fieldsByName[name].tag, value)

clear(definition, fieldValues, name) ==
  IF name \notin DOMAIN definition.fieldsByName
  THEN [thrown |-> "Unknown field name", tag |-> 0, name |-> name,
        fieldValues |-> fieldValues]
  ELSE [thrown |-> "", tag |-> definition.fieldsByName[name].tag,
        name |-> name,
        fieldValues |-> Del(fieldValues, definition.fieldsByName[name].tag)]

clearTag(fieldValues, tag) == Del(fieldValues, tag)

(***************************************************************************)
(* State.  A client works with one parser bound to Definition: it obtains  *)
(* a builder session, sets and clears fields, builds, and parses or        *)
(* validates the text; or it parses and validates a text it received.      *)
(*   builder  the builder session the client holds, if any                 *)
(*   thrown   the error the last call threw (message "" when it returned)  *)
(*   raw      the text at hand: the latest build() of the current field    *)
(*            values, or the received text; empty or one element           *)
(*   parsed   what parseMessage returned for raw, later edited by the      *)
(*            client; empty or one element                                 *)
(*   result   the latest ValidationResult and the entry point it is from   *)
(*   input    the shape of the received text (none for a built text)       *)
(*   removed  the field the client removed from parsed, if any             *)
(***************************************************************************)
VARIABLES builder, thrown, raw, parsed, result, input, removed

vars == <<builder, thrown, raw, parsed, result, input, removed>>

NoBuilder == [exists |-> FALSE]

NoError == [message |-> ""]

NoInput == [given |-> FALSE]

(***************************************************************************)
(* Inputs of the builder calls                                             *)
(***************************************************************************)
\* type codes asked of getBuilder: "0", "D" and the unknown "Z"
TypeInputs == { <<48>>, <<68>>, <<90>> }

\* "x" SOH "9=7": a value that carries the delimiter
DelimiterValue == <<120, SOH, 57, EQUALS, 55>>

\* the (tag, value) calls of setTag
SetTagInputs ==
  { <<49, <<83>>>>, <<49, <<>>>>, <<56, <<84>>>>,
    <<11, <<73, 68>>>>, <<11, DelimiterValue>>,
    <<54, <<49>>>>, <<54, <<49, 50>>>>,
    <<35, <<48>>>>, <<78, <<49>>>>,
    <<8, <<88>>>>, <<9, <<53>>>>, <<10, <<48, 48, 48>>>> }

\* the (name, value) calls of set
SetInputs ==
  { <<"Symbol", <<65>>>>, <<"AllocAccount", <<65, 67>>>>,
    <<"CheckSum", <<48, 48, 48>>>>, <<"Nope", <<120>>>> }

ClearInputs == { "Side", "MsgType", "Nope" }

ClearTagInputs == { 11, 49, 78, 79 }

(***************************************************************************)
(* Builder calls                                                           *)
(***************************************************************************)
Fresh == /\ raw' = <<>>
         /\ parsed' = <<>>
         /\ result' = <<>>

\* FIXParser.getBuilder
GetBuilder(msgType) ==
  LET r == createBuilder(Definition, msgType)
  IN  /\ IF r.thrown = ""
         THEN /\ builder' = r.session
              /\ thrown' = NoError
              /\ Fresh
         ELSE /\ thrown' = [message |-> r.thrown, msgType |-> r.msgType,
                            available |-> r.available]
              /\ UNCHANGED <<builder, raw, parsed, result>>
      /\ UNCHANGED <<input, removed>>

\* what a set or clear call leaves behind: the new map, or the error
Edited(r) ==
  /\ IF r.thrown = ""
     THEN /\ builder' = [builder EXCEPT !.fieldValues = r.fieldValues]
          /\ thrown' = NoError
          /\ Fresh
     ELSE /\ thrown' = [message |-> r.thrown, tag |-> r.tag, name |-> r.name]
          /\ UNCHANGED <<builder, raw, parsed, result>>
  /\ UNCHANGED <<input, removed>>

SetTag(tag, value) ==
  /\ builder.exists
  /\ Edited(setTag(builder.fieldValues, tag, value))

Set(name, value) ==
  /\ builder.exists
  /\ Edited(set(Definition, builder.fieldValues, name, value))

Clear(name) ==
  /\ builder.exists
  /\ Edited(clear(Definition, builder.fieldValues, name))

ClearTag(tag) ==
  /\ builder.exists
  /\ builder' = [builder EXCEPT !.fieldValues = clearTag(@, tag)]
  /\ thrown' = NoError
  /\ Fresh
  /\ UNCHANGED <<input, removed>>

\* build that empties the session's map once the text is made
BuildConsumesMap ==
  /\ builder.exists
  /\ raw' = << build(builder.fieldValues, builder.beginString) >>
  /\ builder' = [builder EXCEPT !.fieldValues = EmptyMap]
  /\ parsed' = <<>>
  /\ result' = <<>>
  /\ thrown' = NoError
  /\ UNCHANGED <<input, removed>>

Build ==
  /\ builder.exists
  /\ raw' = << build(builder.fieldValues, builder.beginString) >>
  /\ parsed' = <<>>
  /\ result' = <<>>
  /\ thrown' = NoError
  /\ UNCHANGED <<builder, input, removed>>

(***************************************************************************)
(* Parser and validator calls on the text at hand                          *)
(***************************************************************************)
\* FIXParser.parse
Parse ==
  /\ raw # <<>>
  /\ LET p == parseMessage(raw[1], Definition)
     IN  IF p.thrown = ""
         THEN /\ parsed' = << p.message >>
              /\ removed' = <<>>
              /\ thrown' = NoError
         ELSE /\ thrown' = [message |-> p.thrown]
              /\ UNCHANGED <<parsed, removed>>
  /\ UNCHANGED <<builder, raw, result, input>>

\* FIXParser.validateRaw
ValidateRaw ==
  /\ raw # <<>>
  /\ result' = << [by |-> "validateRaw", r |-> validateRaw(raw[1], Definition)] >>
  /\ thrown' = NoError
  /\ UNCHANGED <<builder, raw, parsed, input, removed>>

\* FIXParser.validateJson
ValidateJson ==
  /\ parsed # <<>>
  /\ result' = << [by |-> "validateParsed",
                   r |-> validateParsed(parsed[1], Definition)] >>
  /\ thrown' = NoError
  /\ UNCHANGED <<builder, raw, parsed, input, removed>>

InitBuilder ==
  /\ builder = NoBuilder
  /\ thrown = NoError
  /\ raw = <<>>
  /\ parsed = <<>>
  /\ result = <<>>
  /\ input = NoInput
  /\ removed = <<>>

Init == InitBuilder

Next ==
  \/ \E t \in TypeInputs : GetBuilder(t)
  \/ \E c \in SetTagInputs : SetTag(c[1], c[2])
  \/ \E c \in SetInputs : Set(c[1], c[2])
  \/ \E n \in ClearInputs : Clear(n)
  \/ \E t \in ClearTagInputs : ClearTag(t)
  \/ Build
  \/ Parse
  \/ ValidateRaw

Spec == Init /\ [][Next]_vars

(***************************************************************************)
(* Received texts: a NewOrderSingle whose body holds a repeating group.    *)
(* The text is the frame and the mandatory fields, a group counter with    *)
(* value count, then the pairs of entries (one list of tags per entry),    *)
(* then tail.  Values differ from entry to entry.                          *)
(***************************************************************************)
MaxCount == 3

MaxEntries == 2

\* NoAllocs (78), declared by the message: AllocAccount (79), AllocQty (80)
AllocGroup ==
  [counter |-> 78, name |-> "NoAllocs",
   shapes |-> { <<79>>, <<79, 80>>, <<80>> }]

\* NoPartyIDs (453), declared by component Parties: PartyID (448),
\* PartyRole (452) and the nested group NoPartySubIDs (802): PartySubID (523)
PartyGroup ==
  [counter |-> 453, name |-> "NoPartyIDs",
   shapes |-> { <<448, 452>>, <<448, 802, 523>>, <<448, 802, 523, 452>> }]

Pair(tag, value) == [tag |-> tag, value |-> value]

\* the value of the field with this tag in the k-th entry
ValueOf(tag, k) ==
  IF tag \in {80, 452} THEN <<ZERO + k>>
  ELSE IF tag = 802 THEN <<49>>
  ELSE <<64 + k>>

EntryPairs(shape, k) ==
  [i \in DOMAIN shape |-> Pair(shape[i], ValueOf(shape[i], k))]

EntriesPairs(entries) ==
  Flatten([k \in DOMAIN entries |-> EntryPairs(entries[k], k)],
          1, Len(entries))

Tails ==
  { <<>>,
    << Pair(58, <<84>>) >>,
    << Pair(10, <<48, 48, 48>>) >>,
    << Pair(58, <<84>>), Pair(10, <<48, 48, 48>>) >> }

PrefixPairs ==
  << Pair(8, <<70, 73, 88, 46, 52, 46, 52>>), Pair(9, <<49, 48, 48>>),
     Pair(35, <<68>>), Pair(49, <<83>>), Pair(56, <<84>>),
     Pair(11, <<73, 68>>), Pair(54, <<49>>), Pair(55, <<65>>) >>

InputPairs(in) ==
  PrefixPairs \o << Pair(in.group.counter, String(in.count)) >>
    \o EntriesPairs(in.entries) \o in.tail

Render(pairs) ==
  Flatten([i \in DOMAIN pairs |->
             String(pairs[i].tag) \o <<EQUALS>> \o pairs[i].value \o <<SOH>>],
          1, Len(pairs))

Inputs ==
  { [given |-> TRUE, group |-> g, count |-> c, entries |-> es, tail |-> t] :
      g \in {AllocGroup, PartyGroup}, c \in 0..MaxCount,
      es \in UNION { [1..n -> AllocGroup.shapes \cup PartyGroup.shapes] :
                       n \in 0..MaxEntries },
      t \in Tails }

WellShaped(in) == \A k \in DOMAIN in.entries : in.entries[k] \in in.group.shapes

\* the names a definition declares mandatory for the message, header and
\* trailer sections
MandatoryNames(msg) ==
  Range(collectRequiredFields(Definition.header, Definition))
    \cup Range(collectRequiredFields(Definition.trailer, Definition))
    \cup (IF msg.msgType \in DOMAIN Definition.messagesByType
          THEN Range(collectRequiredFields(
                       Definition.messagesByType[msg.msgType], Definition))
          ELSE {})

\* the client deletes a field from a message that validateParsed accepted
WithoutField(msg, name) ==
  [msg EXCEPT
     !.header = [n \in DOMAIN @ \ {name} |-> @[n]],
     !.body = [n \in DOMAIN @ \ {name} |-> @[n]],
     !.trailer = [n \in DOMAIN @ \ {name} |-> @[n]],
     !.fields = SelectSeq(@, LAMBDA f : f.name # name)]

RemoveField(name) ==
  /\ parsed # <<>>
  /\ removed = <<>>
  /\ result # <<>>
  /\ result[1].by = "validateParsed"
  /\ result[1].r.valid
  /\ name \in MandatoryNames(parsed[1])
  /\ name \in DOMAIN parsed[1].header \cup DOMAIN parsed[1].body
                \cup DOMAIN parsed[1].trailer
  /\ parsed' = << WithoutField(parsed[1], name) >>
  /\ removed' = << name >>
  /\ result' = <<>>
  /\ thrown' = NoError
  /\ UNCHANGED <<builder, raw, input>>

AllNames == { Definition.fieldsByTag[t].name : t \in DOMAIN Definition.fieldsByTag }

InitParse ==
  /\ builder = NoBuilder
  /\ thrown = NoError
  /\ input \in { in \in Inputs : WellShaped(in) }
  /\ raw = << Render(InputPairs(input)) >>
  /\ parsed = <<>>
  /\ result = <<>>
  /\ removed = <<>>

NextParse ==
  \/ Parse
  \/ ValidateRaw
  \/ ValidateJson
  \/ \E n \in AllNames : RemoveField(n)

SpecParse == InitParse /\ [][NextParse]_vars

(***************************************************************************)
(* Properties of built texts (specification Spec).  Under Spec the text at *)
(* hand is always build() of the session's current field values.           *)
(***************************************************************************)
IssueTags(issues) == { issues[i].tag : i \in DOMAIN issues }

ValidatedRaw == result # <<>> /\ result[1].by = "validateRaw"

FieldTypeOf(tag) ==
  IF tag \in DOMAIN Definition.fieldsByTag
  THEN Definition.fieldsByTag[tag].type ELSE ""

FieldNameOf(tag) ==
  IF tag \in DOMAIN Definition.fieldsByTag
  THEN Definition.fieldsByTag[tag].name ELSE "Tag" \o ToString(tag)

\* no value of the session carries the field delimiter
DelimiterFree ==
  \A t \in DOMAIN builder.fieldValues : ~Includes(builder.fieldValues[t], SOH)

\* tag 35 still holds the type code the session was created for
TypeUntouched ==
  /\ 35 \in DOMAIN builder.fieldValues
  /\ builder.fieldValues[35] = builder.msgDef.msgtype

\* no repeating-group counter is set to a positive count
NoCounterSet ==
  \A t \in DOMAIN builder.fieldValues :
    ~ /\ FieldTypeOf(t) = "NUMINGROUP"
      /\ ~parseInt(builder.fieldValues[t]).isNaN
      /\ parseInt(builder.fieldValues[t]).n > 0

\* the mandatory fields a caller can set: those of the header other than
\* the framing fields, and those of the session's message type
SettableMandatory ==
  (Range(collectRequiredFields(Definition.header, Definition))
     \ {"BeginString", "BodyLength"})
    \cup Range(collectRequiredFields(builder.msgDef, Definition))

AllMandatorySet ==
  \A name \in SettableMandatory :
    /\ name \in DOMAIN Definition.fieldsByName
    /\ Definition.fieldsByName[name].tag \in DOMAIN builder.fieldValues

\* every value is non-empty and has the lexical form of its field's type
WellTypedValues ==
  \A t \in DOMAIN builder.fieldValues :
    /\ builder.fieldValues[t] # <<>>
    /\ validateFieldType(builder.fieldValues[t], FieldTypeOf(t)) = ""

\* C1 as stated: for every builder session and every sequence of set and
\* clear calls, validateRaw of the built text reports no checksum error
\* (tag 10) and no BodyLength warning (tag 9).
C1_FramingAnyValues ==
  (builder.exists /\ ValidatedRaw) =>
    /\ <<10>> \notin IssueTags(result[1].r.errors)
    /\ <<9>> \notin IssueTags(result[1].r.warnings)

\* C1 amended: when no value set on the session contains the delimiter,
\* validateRaw of the built text reports no checksum error and no
\* BodyLength warning; the checksum half holds for every value.
C1_FramingBitExact ==
  (builder.exists /\ ValidatedRaw) =>
    /\ <<10>> \notin IssueTags(result[1].r.errors)
    /\ DelimiterFree => <<9>> \notin IssueTags(result[1].r.warnings)

C1_Witness ==
  /\ builder.exists
  /\ ValidatedRaw
  /\ DelimiterFree
  /\ Cardinality(DOMAIN builder.fieldValues) >= 4
  /\ <<9>> \notin IssueTags(result[1].r.warnings)
  /\ <<10>> \notin IssueTags(result[1].r.errors)

BodyTags ==
  { t \in DOMAIN builder.fieldValues \ {8, 9, 10, 35} :
      FieldNameOf(t) \notin headerFieldNames(Definition)
                               \cup trailerFieldNames(Definition) }

RoundTripsType ==
  /\ parsed[1].msgType = builder.msgDef.msgtype
  /\ parsed[1].msgTypeName = builder.msgDef.name

RoundTripsBody ==
  \A t \in BodyTags :
    /\ FieldNameOf(t) \in DOMAIN parsed[1].body
    /\ parsed[1].body[FieldNameOf(t)].kind = "value"
    /\ parsed[1].body[FieldNameOf(t)].value = builder.fieldValues[t]

\* C3 as stated: parsing the text built by a builder for M yields msgType M
\* and M's name, and every body field set on the builder is in the parsed
\* body with exactly the value set.
C3_RoundTripAnySession ==
  (builder.exists /\ parsed # <<>>) => (RoundTripsType /\ RoundTripsBody)

\* C3 amended: when tag 35 still holds M and no value contains the
\* delimiter, parsing the built text yields msgType M and M's name; when
\* moreover no repeating-group counter is set to a positive count, every
\* body field set on the builder is in the parsed body with exactly the
\* value set.
C3_RoundTrip ==
  (builder.exists /\ parsed # <<>> /\ TypeUntouched /\ DelimiterFree) =>
    /\ RoundTripsType
    /\ NoCounterSet => RoundTripsBody

C3_Witness ==
  /\ builder.exists
  /\ parsed # <<>>
  /\ TypeUntouched
  /\ DelimiterFree
  /\ NoCounterSet
  /\ Cardinality(BodyTags) >= 3
  /\ RoundTripsType
  /\ RoundTripsBody

(***************************************************************************)
(* Properties of parsing received texts (specification SpecParse).  The    *)
(* text at hand carries one repeating group: its counter with value        *)
(* input.count, then the pairs of input.entries, then input.tail.          *)
(***************************************************************************)
\* the tag of the group's first declared field
LeadingTag(group) == IF group.counter = 78 THEN 79 ELSE 448

\* every entry of the text begins with the group's first field and holds
\* only fields the group declares directly
FlatLeading(in) ==
  \A k \in DOMAIN in.entries :
    /\ in.entries[k][1] = LeadingTag(in.group)
    /\ Range(in.entries[k]) \cap {802, 523} = {}

\* the number of entries of the text that begin with the first field
LeadingCount(in) ==
  Cardinality({ k \in DOMAIN in.entries : in.entries[k][1] = LeadingTag(in.group) })

\* the entry the k-th run of pairs of the text stands for
ExpectedEntry(shape, k) ==
  [n \in { FieldNameOf(shape[i]) : i \in DOMAIN shape } |->
     Scalar(ValueOf(Definition.fieldsByName[n].tag, k))]

ExpectedEntries(in, n) ==
  [k \in 1..n |-> ExpectedEntry(in.entries[k], k)]

ParsedGroup == parsed[1].body[input.group.name]

IsParsedGroup ==
  /\ input.group.name \in DOMAIN parsed[1].body
  /\ ParsedGroup.kind = "group"

\* C4: for a known group whose counter has value N > 0, the parsed list has
\* at most N entries, and exactly N when the text holds at least N entries.
C4_GroupCardinality ==
  (parsed # <<>> /\ input.count >= 1) =>
    /\ IsParsedGroup
    /\ Len(ParsedGroup.entries) <= input.count
    /\ LeadingCount(input) >= input.count
         => Len(ParsedGroup.entries) = input.count

C4_Witness ==
  /\ parsed # <<>>
  /\ input.count = 1
  /\ LeadingCount(input) = 2
  /\ IsParsedGroup
  /\ Len(ParsedGroup.entries) = 1

\* C5: the counter with value N followed by N entries, each beginning with
\* the group's first field, parses to a list of N entries, the k-th mapping
\* the fields of the k-th entry to their values (the scenario: N = 2, two
\* fields per entry).
C5_EntryBoundaries ==
  ( /\ parsed # <<>>
    /\ input.count >= 1
    /\ input.count = Len(input.entries)
    /\ FlatLeading(input) ) =>
    /\ IsParsedGroup
    /\ ParsedGroup.entries = ExpectedEntries(input, input.count)

C5_Witness ==
  /\ parsed # <<>>
  /\ input.group = AllocGroup
  /\ input.count = 2
  /\ input.entries = << <<79, 80>>, <<79, 80>> >>
  /\ IsParsedGroup
  /\ Len(ParsedGroup.entries) = 2
  /\ ParsedGroup.entries[1]["AllocQty"] = Scalar(<<49>>)
  /\ ParsedGroup.entries[2]["AllocAccount"] = Scalar(<<66>>)
  /\ ParsedGroup.entries[2]["AllocQty"] = Scalar(<<50>>)

\* C6: when the counter of a nested group occurs inside an entry of its
\* parent group, the entry holds under the nested counter's name the list
\* of the nested group's entries.
C6_NestedGroups ==
  ( /\ parsed # <<>>
    /\ input.group = PartyGroup
    /\ input.count >= 1
    /\ Len(input.entries) >= 1
    /\ 802 \in Range(input.entries[1]) ) =>
    /\ IsParsedGroup
    /\ Len(ParsedGroup.entries) >= 1
    /\ "NoPartySubIDs" \in DOMAIN ParsedGroup.entries[1]
    /\ ParsedGroup.entries[1]["NoPartySubIDs"]
         = Group(<< [PartySubID |-> Scalar(ValueOf(523, 1))] >>)

\* C7: when the text holds fewer than N entries for a counter with value N,
\* the parsed list has fewer than N entries and holds exactly the entries
\* present.
C7_LenientTruncation ==
  ( /\ parsed # <<>>
    /\ input.count >= 1
    /\ FlatLeading(input)
    /\ Len(input.entries) < input.count ) =>
    /\ IsParsedGroup
    /\ Len(ParsedGroup.entries) < input.count
    /\ ParsedGroup.entries = ExpectedEntries(input, Len(input.entries))

\* C8: the fields list of a parsed message holds one entry per tokenized
\* pair of the text, in the order of the text, the members of repeating
\* groups included.
C8_FieldsMirrorPairs ==
  (parsed # <<>> /\ removed = <<>>) =>
    [i \in DOMAIN parsed[1].fields |->
       Pair(parsed[1].fields[i].tag, parsed[1].fields[i].value)]
      = InputPairs(input)

\* the mandatory fields validateParsed looks for: those of the header other
\* than the three framing fields, and those of the message's type
CheckedMandatory(msg) ==
  (Range(collectRequiredFields(Definition.header, Definition))
     \ {"BeginString", "BodyLength", "MsgType"})
    \cup (IF msg.msgType \in DOMAIN Definition.messagesByType
          THEN Range(collectRequiredFields(
                       Definition.messagesByType[msg.msgType], Definition))
          ELSE {})

ValidatedParsed == result # <<>> /\ result[1].by = "validateParsed"

ExactlyOneErrorFor(name) ==
  /\ ~result[1].r.valid
  /\ Len(result[1].r.errors) = 1
  /\ result[1].r.errors[1].field = <<name>>
  /\ result[1].r.errors[1].severity = "error"

\* C9 as stated: removing any one field the definition declares mandatory
\* from a message validateParsed accepted makes validateParsed return
\* valid=false with exactly one error, which names the removed field.
C9_AnyMandatoryRemoval ==
  (removed # <<>> /\ ValidatedParsed) => ExactlyOneErrorFor(removed[1])

\* C9 amended: removing one mandatory header field other than BeginString,
\* BodyLength and MsgType, or one mandatory body field of the message's
\* type (declared directly or by a required component), from a message
\* validateParsed accepted makes validateParsed return valid=false with
\* exactly one error, which names the removed field and its tag.
C9_MandatoryRemoval ==
  ( /\ removed # <<>>
    /\ ValidatedParsed
    /\ removed[1] \in CheckedMandatory(parsed[1]) ) =>
    /\ ExactlyOneErrorFor(removed[1])
    /\ result[1].r.errors[1].tag = TagOfName(removed[1], Definition)

C9_Witness ==
  /\ removed = <<"Symbol">>
  /\ ValidatedParsed
  /\ ~result[1].r.valid
  /\ Len(result[1].r.errors) = 1
  /\ result[1].r.errors[1].tag = <<55>>

\* C10: asking for a builder for a type code the definition does not know
\* fails with an error that names the code and enumerates every known type
\* code, and leaves the session as it was; asking for a known code returns
\* a session for that type.
C10_UnknownTypeRejected ==
  [][\A t \in TypeInputs :
       GetBuilder(t) =>
         IF t \in DOMAIN Definition.messagesByType
         THEN /\ builder'.exists
              /\ builder'.msgDef = Definition.messagesByType[t]
              /\ builder'.fieldValues = Put(EmptyMap, 35, t)
              /\ thrown' = NoError
         ELSE /\ builder' = builder
              /\ thrown'.message = "Unknown message type"
              /\ thrown'.msgType = t
              /\ Range(thrown'.available) = DOMAIN Definition.messagesByType]_vars

C10_Witness ==
  /\ builder.exists
  /\ thrown.message = "Unknown message type"
  /\ thrown.msgType = <<90>>
  /\ Range(thrown.available) = {<<48>>, <<68>>}

(***************************************************************************)
(* Protected fields of the builder (specification Spec)                    *)
(***************************************************************************)
StructuralName(tag) ==
  IF tag = 8 THEN "BeginString" ELSE IF tag = 9 THEN "BodyLength" ELSE "CheckSum"

\* the call failed naming the structural field and the session is as before
RejectedAsProtected(tag) ==
  /\ builder' = builder
  /\ thrown'.message = "is managed automatically and cannot be set manually"
  /\ thrown'.tag = tag
  /\ thrown'.name = StructuralName(tag)

ProtectedStep ==
  /\ \A i \in SetTagInputs :
       (i[1] \in {8, 9, 10} /\ SetTag(i[1], i[2])) => RejectedAsProtected(i[1])
  /\ \A i \in SetInputs :
       ( /\ i[1] \in DOMAIN Definition.fieldsByName
         /\ Definition.fieldsByName[i[1]].tag \in {8, 9, 10}
         /\ Set(i[1], i[2]) )
         => RejectedAsProtected(Definition.fieldsByName[i[1]].tag)

NoStructuralTags ==
  builder.exists => DOMAIN builder.fieldValues \cap {8, 9, 10} = {}

\* C11: setting tag 8, 9 or 10 on a builder, by tag or by a name that
\* resolves to one of them, fails with an error naming the field and leaves
\* the session's field values unchanged; so the map of a session never
\* holds tag 8, 9 or 10.
C11_ProtectedFields == []NoStructuralTags /\ [][ProtectedStep]_vars

C11_Witness ==
  /\ builder.exists
  /\ Cardinality(DOMAIN builder.fieldValues) >= 3
  /\ thrown.message = "is managed automatically and cannot be set manually"
  /\ thrown.tag = 10
  /\ thrown.name = "CheckSum"


(***************************************************************************)
(* Received texts of any shape: the raw argument of parse and validateRaw, *)
(* made of chunks of segments, with or without the framing fields 8, 9 and *)
(* 10, whose declared values are right, wrong, zero or empty               *)
(***************************************************************************)
MaxChunks == 2

Chunks ==
  << \* "AB": a segment without "="
     << <<65, 66>> >>,
     \* "x=1": a segment whose tag is not a number
     << <<120, EQUALS, 49>> >>,
     \* "35=0", "49=S", "56=T": a complete Heartbeat
     << <<51, 53, EQUALS, 48>>, <<52, 57, EQUALS, 83>>,
        <<53, 54, EQUALS, 84>> >>,
     \* "35=Z": a type the definition does not have
     << <<51, 53, EQUALS, 90>> >>,
     \* "54=12": Side is a CHAR
     << <<53, 52, EQUALS, 49, 50>> >>,
     \* "54=3": not among the values of Side
     << <<53, 52, EQUALS, 51>> >>,
     \* "999=x": a tag the definition does not have
     << <<57, 57, 57, EQUALS, 120>> >>,
     \* "35=D", "49=S", "56=T", "11=ID", "54=1", "55=A": a complete order
     << <<51, 53, EQUALS, 68>>, <<52, 57, EQUALS, 83>>,
        <<53, 54, EQUALS, 84>>, <<49, 49, EQUALS, 73, 68>>,
        <<53, 52, EQUALS, 49>>, <<53, 53, EQUALS, 65>> >>,
     \* "78=1", "80=x": one NoAllocs entry whose AllocQty is not a number
     << <<55, 56, EQUALS, 49>>, <<56, 48, EQUALS, 120>> >> >>

Frames ==
  { "none", "framed", "badLength", "badChecksum", "zeroLength",
    "emptyChecksum" }

TextInputs ==
  { [given |-> TRUE, chunks |-> c, frame |-> f, delimiter |-> d] :
      c \in UNION { [1..n -> DOMAIN Chunks] : n \in 0..MaxChunks },
      f \in Frames, d \in {SOH, PIPE} }

\* the segments of the chunks, in order
SegmentsOf(chunks) ==
  Flatten([i \in DOMAIN chunks |-> Chunks[chunks[i]]], 1, Len(chunks))

\* each segment followed by the delimiter
SegmentsText(segments, d) ==
  Flatten([i \in DOMAIN segments |-> segments[i] \o <<d>>], 1, Len(segments))

BodyTextOf(in) == SegmentsText(SegmentsOf(in.chunks), in.delimiter)

\* the number of characters between the fields 9 and 10 of the text
TrueBodyLength(in) == Len(BodyTextOf(in))

\* the value the text gives for tag 9
DeclaredBodyLength(in) ==
  IF in.frame = "badLength" THEN TrueBodyLength(in) + 1
  ELSE IF in.frame = "zeroLength" THEN 0
  ELSE TrueBodyLength(in)

\* the text before its field 10
FramedHead(in) ==
  <<56, EQUALS, 70, 73, 88, 46, 52, 46, 52, in.delimiter>>
    \o <<57, EQUALS>> \o String(DeclaredBodyLength(in)) \o <<in.delimiter>>
    \o BodyTextOf(in)

\* the sum of the character codes before field 10, modulo 256
TrueChecksumNumber(in) ==
  SumCodes(FramedHead(in), 1, Len(FramedHead(in))) % 256

\* the value the text gives for tag 10
DeclaredChecksum(in) ==
  IF in.frame = "badChecksum"
  THEN PadStart3(String((TrueChecksumNumber(in) + 1) % 256))
  ELSE IF in.frame = "emptyChecksum" THEN <<>>
  ELSE PadStart3(String(TrueChecksumNumber(in)))

TextOf(in) ==
  IF in.frame = "none" THEN BodyTextOf(in)
  ELSE FramedHead(in) \o CHECKSUM_TAG \o DeclaredChecksum(in)
         \o <<in.delimiter>>

InitText ==
  /\ builder = NoBuilder
  /\ thrown = NoError
  /\ input \in TextInputs
  /\ raw = << TextOf(input) >>
  /\ parsed = <<>>
  /\ result = <<>>
  /\ removed = <<>>

NextText ==
  \/ Parse
  \/ ValidateRaw
  \/ ValidateJson

SpecText == InitText /\ [][NextText]_vars


(***************************************************************************)
(* C12: a text that cannot be parsed                                       *)
(***************************************************************************)
\* no segment of the text is a pair: none has both "=" and a numeric tag
Unparseable(in) ==
  /\ in.frame = "none"
  /\ \A i \in DOMAIN in.chunks : in.chunks[i] \in {1, 2}

ParseFailureResult ==
  [valid |-> FALSE,
   errors |-> << [tag |-> <<>>, field |-> <<>>,
                  message |-> "Failed to parse message",
                  severity |-> "error"] >>,
   warnings |-> <<>>]

\* C12: validateRaw never throws; for a text that cannot be parsed it returns
\* valid = false with exactly one error, the parse failure, and no warnings,
\* and nothing else is checked.
C12_UnparseableRejected ==
  [][ValidateRaw =>
       /\ thrown' = NoError
       /\ result' # <<>>
       /\ Unparseable(input) => result'[1].r = ParseFailureResult]_vars

C12_Witness ==
  /\ ValidatedRaw
  /\ input.given /\ Unparseable(input)
  /\ Len(input.chunks) = 2
  /\ result[1].r = ParseFailureResult


(***************************************************************************)
(* C13: the framing checks of validateRaw                                  *)
(***************************************************************************)
ChecksumDiffers(in) ==
  in.frame # "none" /\ DeclaredChecksum(in) # PadStart3(String(TrueChecksumNumber(in)))

BodyLengthDiffers(in) ==
  in.frame # "none" /\ DeclaredBodyLength(in) # TrueBodyLength(in)

\* the same text with the right body length and checksum
WellFramed(in) == [in EXCEPT !.frame = "framed"]

ChecksumReported ==
  /\ ~result[1].r.valid
  /\ \E i \in DOMAIN result[1].r.errors :
       /\ result[1].r.errors[i].tag = <<10>>
       /\ result[1].r.errors[i].severity = "error"

BodyLengthReported ==
  /\ <<9>> \notin IssueTags(result[1].r.errors)
  /\ \E i \in DOMAIN result[1].r.warnings :
       /\ result[1].r.warnings[i].tag = <<9>>
       /\ result[1].r.warnings[i].severity = "warning"

\* valid is what it is for the same text with the right body length
BodyLengthAdvisory(in) ==
  (BodyLengthDiffers(in) /\ ~ChecksumDiffers(in))
    => result[1].r.valid = validateRaw(TextOf(WellFramed(in)), Definition).valid

UnknownTypeResult ==
  [valid |-> FALSE,
   errors |-> << [tag |-> <<35>>, field |-> <<"MsgType">>,
                  message |-> "Unknown message type",
                  severity |-> "error"] >>,
   warnings |-> <<>>]

\* C14: for a parsed message whose type is not in the definition,
\* validateParsed returns valid = false with exactly one error, for MsgType
\* (tag 35), and no warnings: no mandatory, type or enum check is made.
C14_UnknownTypeOnly ==
  [][(ValidateJson /\ parsed[1].msgType \notin DOMAIN Definition.messagesByType)
       => result'[1].r = UnknownTypeResult]_vars

\* "35=Z", then "54=12" that would fail the type check: one error only
C14_Witness ==
  /\ ValidatedParsed
  /\ input.given /\ input.chunks = <<4, 5>> /\ input.frame = "none"
  /\ parsed # <<>> /\ parsed[1].msgType = <<90>>
  /\ result[1].r = UnknownTypeResult


(***************************************************************************)
(* C15: which pairs of the text the field checks cover                     *)
(***************************************************************************)
\* the type the text declares: the value of its tag 35
TypeKnown(in) ==
  \E i \in DOMAIN in.chunks : in.chunks[i] \in {3, 8}

\* what the field checks owe one pair of the text
PairCovered(tag, value, r) ==
  IF tag \in DOMAIN Definition.fieldsByTag
  THEN /\ validateFieldType(value, Definition.fieldsByTag[tag].type) # ""
            => <<tag>> \in IssueTags(r.errors)
       /\ validateFieldEnum(value, Definition.fieldsByTag[tag].name,
                            Definition) # ""
            => <<tag>> \in IssueTags(r.warnings)
  ELSE /\ <<tag>> \in IssueTags(r.warnings)
       /\ <<tag>> \notin IssueTags(r.errors)

SegmentsCovered(segments, r) ==
  \A i \in DOMAIN segments :
    PairOf(segments[i]) # <<>>
      => PairCovered(PairOf(segments[i])[1].tag, PairOf(segments[i])[1].value, r)

\* C15 as stated: validateRaw checks every pair of the text, the pairs inside
\* group entries included: a value that does not match the declared type is
\* an error, a value outside the enum is a warning, an unknown tag is a
\* warning and never an error.
C15_EveryPairValidated ==
  (ValidatedRaw /\ input.given /\ TypeKnown(input))
    => SegmentsCovered(SegmentsOf(input.chunks), result[1].r)

\* the same for the texts without a group: only top-level pairs
C15_TopLevelPairsValidated ==
  (ValidatedRaw /\ input.given /\ TypeKnown(input)
     /\ \A i \in DOMAIN input.chunks : input.chunks[i] # 9)
    => SegmentsCovered(SegmentsOf(input.chunks), result[1].r)


(***************************************************************************)
(* C16: when parse fails                                                   *)
(***************************************************************************)
ParsedMessageKeys ==
  { "beginString", "msgType", "msgTypeName", "bodyLength", "checkSum",
    "header", "body", "trailer", "fields" }

\* C16: parse fails exactly when the text has no pair at all (the empty text,
\* or a text whose every segment lacks "=" or has a tag that is not a
\* number), and then returns no message; any other text yields a complete
\* parsed message and no error.
C16_ParseFailsIffNoPair ==
  [][Parse =>
       IF Unparseable(input)
       THEN /\ thrown'.message = "Empty or unparseable FIX message"
            /\ parsed' = parsed
       ELSE /\ thrown' = NoError
            /\ parsed' # <<>>
            /\ DOMAIN parsed'[1] = ParsedMessageKeys
            /\ Len(parsed'[1].fields) >= 1]_vars

C16_Witness ==
  /\ input.given /\ input.chunks = <<2, 1>> /\ Unparseable(input)
  /\ thrown.message = "Empty or unparseable FIX message"
  /\ parsed = <<>>


(***************************************************************************)
(* C17: the order in which build writes the fields                         *)
(***************************************************************************)
\* the tags build writes after the message type
OtherTags(fieldValues) == DOMAIN fieldValues \ {8, 9, 10, 35}

\* the i-th smallest tag of a set
NthTag(tags, i) ==
  CHOOSE t \in tags : Cardinality({ u \in tags : u < t }) = i - 1

\* the fields of the tags in strictly ascending order, each with its delimiter
AscendingFields(fieldValues) ==
  Flatten([i \in 1..Cardinality(OtherTags(fieldValues)) |->
             String(NthTag(OtherTags(fieldValues), i)) \o <<EQUALS>>
               \o fieldValues[NthTag(OtherTags(fieldValues), i)] \o <<SOH>>],
          1, Cardinality(OtherTags(fieldValues)))

TypeSet(fieldValues) ==
  35 \in DOMAIN fieldValues /\ fieldValues[35] # <<>>

\* "35=", the type and the delimiter
TypeField(fieldValues) ==
  <<51, 53, EQUALS>>
    \o (IF 35 \in DOMAIN fieldValues THEN fieldValues[35] ELSE <<>>)
    \o <<SOH>>

\* the text is 8, 9 with the length of the body, the body, and 10 with three
\* characters and the delimiter
FramesBody(text, beginString, body) ==
  LET head == <<56, EQUALS>> \o beginString \o <<SOH>>
                \o <<57, EQUALS>> \o String(Len(body)) \o <<SOH>> \o body
  IN  /\ Len(text) = Len(head) + 7
      /\ SubSeq(text, 1, Len(head)) = head
      /\ SubSeq(text, Len(head) + 1, Len(head) + 3) = CHECKSUM_TAG
      /\ text[Len(text)] = SOH

\* C17 as stated: build writes 8, 9, then 35 as the first body field, then the
\* other set fields in strictly ascending tag order, each followed by the
\* delimiter, then 10 and the delimiter; the value of 9 is the number of
\* characters from "35=" through the delimiter before "10=".
C17_TypeAlwaysFirst ==
  (builder.exists /\ raw # <<>>) =>
    FramesBody(raw[1], builder.beginString,
               TypeField(builder.fieldValues)
                 \o AscendingFields(builder.fieldValues))

\* C17: when tag 35 holds a value that is not empty, build writes 8, 9, then
\* 35 as the first body field, then the other set fields in strictly
\* ascending tag order, each followed by the delimiter, then 10 and the
\* delimiter, and the value of 9 is the number of characters from "35="
\* through the delimiter before "10=".  When tag 35 was cleared or is empty,
\* no field 35 is written: the body is the other fields alone, or the lone
\* delimiter when no field is set, and 9 is still its number of characters.
C17_SerializationOrder ==
  (builder.exists /\ raw # <<>>) =>
    FramesBody(raw[1], builder.beginString,
               IF TypeSet(builder.fieldValues)
               THEN TypeField(builder.fieldValues)
                      \o AscendingFields(builder.fieldValues)
               ELSE IF OtherTags(builder.fieldValues) = {} THEN <<SOH>>
               ELSE AscendingFields(builder.fieldValues))

C17_Witness ==
  /\ builder.exists /\ raw # <<>>
  /\ TypeSet(builder.fieldValues)
  /\ Cardinality(OtherTags(builder.fieldValues)) >= 3
  /\ FramesBody(raw[1], builder.beginString,
                TypeField(builder.fieldValues)
                  \o AscendingFields(builder.fieldValues))


(***************************************************************************)
(* Schema texts of any shape: the argument of FIXParser.fromXml, with and  *)
(* without its root element and version attributes, and with well-formed,  *)
(* malformed and clashing field declarations                               *)
(***************************************************************************)
MaxDecls == 3

DeclInputs ==
  << FieldDecl(String(8), "BeginString", "STRING", <<>>),
     FieldDecl(String(35), "MsgType", "STRING", <<>>),
     \* the tag of the first and the name of the second
     FieldDecl(String(8), "MsgType", "STRING", <<>>),
     \* number="x"
     FieldDecl(<<120>>, "Foo", "INT", <<>>),
     \* no name
     FieldDecl(String(11), "", "STRING", <<>>),
     \* no type
     FieldDecl(String(55), "Symbol", "", <<>>),
     \* number="8x"
     FieldDecl(<<56, 120>>, "Text", "STRING", <<>>) >>

\* well-formed and root, then major and minor: right, unparseable markup,
\* no <fix>, major missing, minor="x", major="4x"
VersionInputs ==
  { <<TRUE, TRUE, String(4), String(4)>>,
    <<FALSE, TRUE, String(4), String(4)>>,
    <<TRUE, FALSE, String(4), String(4)>>,
    <<TRUE, TRUE, <<>>, String(4)>>,
    <<TRUE, TRUE, String(4), <<120>>>>,
    <<TRUE, TRUE, <<52, 120>>, String(4)>> }

XmlInputs ==
  { [given |-> TRUE,
     xml |-> [Schema EXCEPT !.wellFormed = v[1], !.hasFix = v[2],
                            !.major = v[3], !.minor = v[4],
                            !.fields = [i \in DOMAIN ds |-> DeclInputs[ds[i]]]]] :
      v \in VersionInputs,
      ds \in UNION { [1..n -> DOMAIN DeclInputs] : n \in 0..MaxDecls } }

\* what fromXml leaves behind: the parser's definition, or the error
Loaded(r) ==
  IF r.thrown = ""
  THEN /\ result' = << [by |-> "loadDefinitionFromXml", r |-> r.definition] >>
       /\ thrown' = NoError
  ELSE /\ thrown' = [message |-> r.thrown]
       /\ result' = result

\* FIXParser.fromXml
FromXml ==
  /\ input.given
  /\ Loaded(loadDefinitionFromXml(input.xml))
  /\ UNCHANGED <<builder, raw, parsed, input, removed>>

InitLoad ==
  /\ builder = NoBuilder
  /\ thrown = NoError
  /\ input \in XmlInputs
  /\ raw = <<>>
  /\ parsed = <<>>
  /\ result = <<>>
  /\ removed = <<>>

NextLoad == FromXml

SpecLoad == InitLoad /\ [][NextLoad]_vars


(***************************************************************************)
(* C18: loading fails as a whole, a malformed declaration is skipped       *)
(***************************************************************************)
FromXmlReturned == result # <<>> /\ result[1].by = "loadDefinitionFromXml"

FromXmlThrew == thrown # NoError /\ result = <<>>

\* the text is a decimal number
AllDigits(s) == Len(s) > 0 /\ \A i \in DOMAIN s : IsDigit(s[i])

\* the text begins with a decimal number
BeginsWithDigit(s) == Len(s) > 0 /\ IsDigit(s[1])

\* the decimal number a text begins with
LeadingNumber(s) == DigitsValue(s, 1, DigitRun(s, 1))

\* the spec a declaration stands for
SpecOf(decl) ==
  [tag |-> LeadingNumber(decl.number), name |-> decl.name,
   type |-> decl.type, values |-> LoadValues(decl.value)]

\* no spec of the model comes from the declaration
Skipped(decl, definition) ==
  /\ decl.name \notin DOMAIN definition.fieldsByName
  /\ \A t \in DOMAIN definition.fieldsByTag :
       definition.fieldsByTag[t].name # decl.name

\* the spec of the declaration is in the model, under its tag or its name
Present(decl, definition) ==
  \/ /\ SpecOf(decl).tag \in DOMAIN definition.fieldsByTag
     /\ definition.fieldsByTag[SpecOf(decl).tag] = SpecOf(decl)
  \/ /\ decl.name \in DOMAIN definition.fieldsByName
     /\ definition.fieldsByName[decl.name] = SpecOf(decl)

\* a later declaration that is loaded has the same tag, and one the same name
Replaced(decls, i) ==
  /\ \E j \in DOMAIN decls :
       /\ j > i /\ BeginsWithDigit(decls[j].number)
       /\ decls[j].name # "" /\ decls[j].type # ""
       /\ SpecOf(decls[j]).tag = SpecOf(decls[i]).tag
  /\ \E j \in DOMAIN decls :
       /\ j > i /\ BeginsWithDigit(decls[j].number)
       /\ decls[j].name # "" /\ decls[j].type # ""
       /\ decls[j].name = decls[i].name

Mirrors(definition) ==
  /\ \A t \in DOMAIN definition.fieldsByTag :
       /\ definition.fieldsByTag[t].name \in DOMAIN definition.fieldsByName
       /\ definition.fieldsByName[definition.fieldsByTag[t].name]
            = definition.fieldsByTag[t]
  /\ \A n \in DOMAIN definition.fieldsByName :
       /\ definition.fieldsByName[n].tag \in DOMAIN definition.fieldsByTag
       /\ definition.fieldsByTag[definition.fieldsByName[n].tag]
            = definition.fieldsByName[n]
  /\ Cardinality(DOMAIN definition.fieldsByTag)
       = Cardinality(DOMAIN definition.fieldsByName)

\* the declarations the loader keeps
Kept(decls) ==
  { i \in DOMAIN decls : /\ BeginsWithDigit(decls[i].number)
                         /\ decls[i].name # ""
                         /\ decls[i].type # "" }

\* no two kept declarations share a tag or a name
UniqueKeys(decls) ==
  \A i, j \in Kept(decls) :
    i # j => /\ SpecOf(decls[i]).tag # SpecOf(decls[j]).tag
             /\ decls[i].name # decls[j].name

\* C19: in every model the loader returns, for every sequence of field
\* declarations, fieldsByTag and fieldsByName mirror each other: each spec
\* found under a tag is the spec found under its name and the other way
\* round, and the two maps have the same size.
C19_LookupsMirror ==
  (input.given /\ FromXmlReturned) => Mirrors(result[1].r)

\* the same for the schemas whose declarations have distinct tags and names
C19_LookupsMirrorWhenUnique ==
  (input.given /\ FromXmlReturned /\ UniqueKeys(input.xml.fields))
    => Mirrors(result[1].r)


(***************************************************************************)
(* Field masking (masking.ts), as far as it reads the definition           *)
(***************************************************************************)
\* a MaskConfig: the numbers and the names of config.fields, the placeholder
MaskConfig(tags, names, placeholder) ==
  [tags |-> tags, names |-> names, placeholder |-> placeholder]

resolveMaskTags(config, definition) ==
  Range(config.tags)
    \cup { definition.fieldsByName[n].tag :
             n \in Range(config.names) \cap DOMAIN definition.fieldsByName }

\* one segment of the text, masked when its tag is one to mask
MaskPart(part, tagsToMask, placeholder) ==
  LET eqIdx == IndexOf(part, <<EQUALS>>)
      tag == parseInt(Substring(part, 0, eqIdx))
  IN  IF Len(part) = 0 THEN part
      ELSE IF eqIdx = 0 - 1 THEN part
      ELSE IF ~tag.isNaN /\ tag.n \in tagsToMask
      THEN String(tag.n) \o <<EQUALS>> \o placeholder
      ELSE part

MaskParts(parts, tagsToMask, placeholder) ==
  [i \in DOMAIN parts |-> MaskPart(parts[i], tagsToMask, placeholder)]

maskRaw(text, config, definition) ==
  IF resolveMaskTags(config, definition) = {} THEN text
  ELSE Join(MaskParts(Split(text, IF Includes(text, SOH) THEN SOH ELSE PIPE),
                      resolveMaskTags(config, definition),
                      IF config.placeholder = <<>> THEN <<42, 42, 42>>
                      ELSE config.placeholder),
            IF Includes(text, SOH) THEN SOH ELSE PIPE)

resolveMaskNames(config, definition) ==
  Range(config.names)
    \cup { definition.fieldsByTag[t].name :
             t \in Range(config.tags) \cap DOMAIN definition.fieldsByTag }

RECURSIVE maskGroupEntries(_, _, _)
maskGroupEntries(entries, namesToMask, placeholder) ==
  [i \in DOMAIN entries |->
     [k \in DOMAIN entries[i] |->
        IF entries[i][k].kind = "group"
        THEN Group(maskGroupEntries(entries[i][k].entries, namesToMask,
                                    placeholder))
        ELSE IF k \in namesToMask THEN Scalar(placeholder)
        ELSE entries[i][k]]]

\* the copy of a header or trailer map with the named values replaced
MaskSection(section, namesToMask, placeholder) ==
  [k \in DOMAIN section |->
     IF k \in namesToMask THEN placeholder ELSE section[k]]

MaskBody(body, namesToMask, placeholder) ==
  [k \in DOMAIN body |->
     IF body[k].kind = "group"
     THEN Group(maskGroupEntries(body[k].entries, namesToMask, placeholder))
     ELSE IF k \in namesToMask THEN Scalar(placeholder)
     ELSE body[k]]

MaskFields(fields, namesToMask, placeholder) ==
  [i \in DOMAIN fields |->
     [fields[i] EXCEPT !.value =
        IF fields[i].name \in namesToMask THEN placeholder ELSE @]]

\* maskParsed once the names and the placeholder are known
MaskMessage(msg, namesToMask, placeholder) ==
  IF namesToMask = {} THEN msg
  ELSE [msg EXCEPT !.header = MaskSection(@, namesToMask, placeholder),
                   !.body = MaskBody(@, namesToMask, placeholder),
                   !.trailer = MaskSection(@, namesToMask, placeholder),
                   !.fields = MaskFields(@, namesToMask, placeholder)]

maskParsed(msg, config, definition) ==
  MaskMessage(msg, resolveMaskNames(config, definition),
              IF config.placeholder = <<>> THEN <<42, 42, 42>>
              ELSE config.placeholder)

(***************************************************************************)
(* One definition shared by every call: FIXParser.definition is the object *)
(* handed to the parser, the validator, the builders and the masking; what *)
(* a call leaves of it is what its code writes to it                       *)
(***************************************************************************)
\* a parse that registers the unknown tags of the text in the definition
DefinitionAfterParseCachesUnknown(text, definition) ==
  LET pairs == splitFields(text, detectDelimiter(text))
      unknown == { pairs[i].tag : i \in DOMAIN pairs }
                   \ DOMAIN definition.fieldsByTag
  IN  [definition EXCEPT !.fieldsByTag =
         [t \in DOMAIN definition.fieldsByTag \cup unknown |->
            IF t \in DOMAIN definition.fieldsByTag
            THEN definition.fieldsByTag[t]
            ELSE [tag |-> t, name |-> "Tag" \o ToString(t),
                  type |-> "STRING", values |-> EmptyMap]]]

\* parseMessage only reads the definition: get, has and iteration
DefinitionAfterParse(text, definition) == definition

\* validateParsed and validateRaw only read it
DefinitionAfterValidate(definition) == definition

\* the MessageBuilder keeps the reference and only reads it
DefinitionAfterBuilder(definition) == definition

\* resolveMaskTags only reads it
DefinitionAfterMask(config, definition) == definition

\* the texts received while builders are at work
SharedTexts ==
  { TextOf([given |-> TRUE, chunks |-> c, frame |-> "framed",
            delimiter |-> SOH]) :
      c \in { <<3>>, <<8, 9>>, <<4, 7>>, <<1>> } }

SharedTypeInputs == { <<48>>, <<68>>, <<90>> }

SharedSetInputs ==
  { <<"Symbol", <<65>>>>, <<"SenderCompID", <<83>>>>, <<"Nope", <<120>>>> }

SharedClearInputs == { "Symbol" }

MaskInputs ==
  { MaskConfig(<<49>>, <<"Symbol">>, <<>>),
    MaskConfig(<<>>, <<"Nope">>, <<35>>),
    MaskConfig(<<999>>, <<"AllocQty">>, <<>>) }

Shares(definition) == input' = [input EXCEPT !.definition = definition]

\* the outcome of a parse: the message, or the error
ParseOutcome(p) ==
  IF p.thrown = ""
  THEN /\ parsed' = << p.message >>
       /\ removed' = <<>>
       /\ thrown' = NoError
  ELSE /\ thrown' = [message |-> p.thrown]
       /\ UNCHANGED <<parsed, removed>>

SharedParse ==
  /\ raw # <<>>
  /\ ParseOutcome(parseMessage(raw[1], input.definition))
  /\ Shares(DefinitionAfterParse(raw[1], input.definition))
  /\ UNCHANGED <<builder, raw, result>>

SharedValidateRaw ==
  /\ raw # <<>>
  /\ result' = << [by |-> "validateRaw",
                   r |-> validateRaw(raw[1], input.definition)] >>
  /\ thrown' = NoError
  /\ Shares(DefinitionAfterValidate(
              DefinitionAfterParse(raw[1], input.definition)))
  /\ UNCHANGED <<builder, raw, parsed, removed>>

SharedValidateJson ==
  /\ parsed # <<>>
  /\ result' = << [by |-> "validateParsed",
                   r |-> validateParsed(parsed[1], input.definition)] >>
  /\ thrown' = NoError
  /\ Shares(DefinitionAfterValidate(input.definition))
  /\ UNCHANGED <<builder, raw, parsed, removed>>

\* the outcome of getBuilder: the session, or the error
BuilderOutcome(r) ==
  IF r.thrown = ""
  THEN /\ builder' = r.session
       /\ thrown' = NoError
       /\ Fresh
  ELSE /\ thrown' = [message |-> r.thrown, msgType |-> r.msgType,
                     available |-> r.available]
       /\ UNCHANGED <<builder, raw, parsed, result>>

SharedGetBuilder(msgType) ==
  /\ BuilderOutcome(createBuilder(input.definition, msgType))
  /\ Shares(DefinitionAfterBuilder(input.definition))
  /\ UNCHANGED removed

\* the outcome of set and clear: the new map, or the error
EditOutcome(r) ==
  IF r.thrown = ""
  THEN /\ builder' = [builder EXCEPT !.fieldValues = r.fieldValues]
       /\ thrown' = NoError
       /\ Fresh
  ELSE /\ thrown' = [message |-> r.thrown, tag |-> r.tag, name |-> r.name]
       /\ UNCHANGED <<builder, raw, parsed, result>>

SharedSet(name, value) ==
  /\ builder.exists
  /\ EditOutcome(set(input.definition, builder.fieldValues, name, value))
  /\ Shares(DefinitionAfterBuilder(input.definition))
  /\ UNCHANGED removed

SharedClear(name) ==
  /\ builder.exists
  /\ EditOutcome(clear(input.definition, builder.fieldValues, name))
  /\ Shares(DefinitionAfterBuilder(input.definition))
  /\ UNCHANGED removed

SharedBuild ==
  /\ builder.exists
  /\ raw' = << build(builder.fieldValues, builder.beginString) >>
  /\ parsed' = <<>>
  /\ result' = <<>>
  /\ thrown' = NoError
  /\ Shares(DefinitionAfterBuilder(input.definition))
  /\ UNCHANGED <<builder, removed>>

\* FIXParser.maskRaw
SharedMaskRaw(config) ==
  /\ raw # <<>>
  /\ result' = << [by |-> "maskRaw",
                   r |-> [masked |-> maskRaw(raw[1], config,
                                             input.definition)]] >>
  /\ thrown' = NoError
  /\ Shares(DefinitionAfterMask(config, input.definition))
  /\ UNCHANGED <<builder, raw, parsed, removed>>

\* FIXParser.maskParsed
SharedMaskParsed(config) ==
  /\ parsed # <<>>
  /\ result' = << [by |-> "maskParsed",
                   r |-> [message |-> maskParsed(parsed[1], config,
                                                 input.definition)]] >>
  /\ thrown' = NoError
  /\ Shares(DefinitionAfterMask(config, input.definition))
  /\ UNCHANGED <<builder, raw, parsed, removed>>

InitShared ==
  /\ builder = NoBuilder
  /\ thrown = NoError
  /\ input = [given |-> TRUE, definition |-> Definition]
  /\ raw \in { <<t>> : t \in SharedTexts }
  /\ parsed = <<>>
  /\ result = <<>>
  /\ removed = <<>>

NextShared ==
  \/ SharedParse
  \/ SharedValidateRaw
  \/ SharedValidateJson
  \/ \E t \in SharedTypeInputs : SharedGetBuilder(t)
  \/ \E c \in SharedSetInputs : SharedSet(c[1], c[2])
  \/ \E n \in SharedClearInputs : SharedClear(n)
  \/ SharedBuild
  \/ \E c \in MaskInputs : SharedMaskRaw(c)
  \/ \E c \in MaskInputs : SharedMaskParsed(c)

SpecShared == InitShared /\ [][NextShared]_vars


(***************************************************************************)
(* C20: no call changes the definition it shares with the others           *)
(***************************************************************************)
\* each call gives what it gives alone on a freshly loaded definition
AsAlone ==
  /\ SharedParse => Parse
  /\ SharedValidateRaw => ValidateRaw
  /\ SharedValidateJson => ValidateJson
  /\ \A t \in SharedTypeInputs : SharedGetBuilder(t) => GetBuilder(t)
  /\ \A c \in SharedSetInputs : SharedSet(c[1], c[2]) => Set(c[1], c[2])
  /\ \A n \in SharedClearInputs : SharedClear(n) => Clear(n)
  /\ SharedBuild => Build
  /\ \A c \in MaskInputs :
       SharedMaskRaw(c) =>
         result' = << [by |-> "maskRaw",
                       r |-> [masked |-> maskRaw(raw[1], c, Definition)]] >>

ConfiguredTags(c) ==
  Range(c.tags)
    \cup { Definition.fieldsByName[n].tag :
             n \in Range(c.names) \cap DOMAIN Definition.fieldsByName }

PlaceholderOf(c) == IF c.placeholder = <<>> THEN <<42, 42, 42>> ELSE c.placeholder

\* segment by segment: the configured tags carry the placeholder, every other
\* segment is as it was
RawMaskedSegments(parts, out, c) ==
  /\ Len(out) = Len(parts)
  /\ \A i \in DOMAIN parts :
       IF PairOf(parts[i]) # <<>> /\ PairOf(parts[i])[1].tag \in ConfiguredTags(c)
       THEN PairOf(out[i]) = << [tag |-> PairOf(parts[i])[1].tag,
                                 value |-> PlaceholderOf(c)] >>
       ELSE out[i] = parts[i]

RawMasked(text, c, out) ==
  /\ detectDelimiter(out) = detectDelimiter(text)
  /\ RawMaskedSegments(Split(text, detectDelimiter(text)),
                       Split(out, detectDelimiter(text)), c)

\* the tag of the top-level field of that name
TagNamed(fields, k) ==
  (CHOOSE i \in DOMAIN fields : fields[i].name = k)

RECURSIVE EntriesMasked(_, _, _)
EntriesMasked(entries, out, c) ==
  /\ Len(out) = Len(entries)
  /\ \A i \in DOMAIN entries :
       /\ DOMAIN out[i] = DOMAIN entries[i]
       /\ \A k \in DOMAIN entries[i] :
            IF entries[i][k].kind = "group"
            THEN /\ out[i][k].kind = "group"
                 /\ EntriesMasked(entries[i][k].entries, out[i][k].entries, c)
            ELSE out[i][k] =
                   IF Definition.fieldsByName[k].tag \in ConfiguredTags(c)
                   THEN Scalar(PlaceholderOf(c)) ELSE entries[i][k]

SectionMasked(section, out, fields, c) ==
  /\ DOMAIN out = DOMAIN section
  /\ \A k \in DOMAIN section :
       out[k] = IF fields[TagNamed(fields, k)].tag \in ConfiguredTags(c)
                THEN PlaceholderOf(c) ELSE section[k]

BodyMasked(body, out, fields, c) ==
  /\ DOMAIN out = DOMAIN body
  /\ \A k \in DOMAIN body :
       IF body[k].kind = "group"
       THEN /\ out[k].kind = "group"
            /\ EntriesMasked(body[k].entries, out[k].entries, c)
       ELSE out[k] = IF fields[TagNamed(fields, k)].tag \in ConfiguredTags(c)
                     THEN Scalar(PlaceholderOf(c)) ELSE body[k]

ParsedMasked(msg, c, out) ==
  /\ Len(out.fields) = Len(msg.fields)
  /\ \A i \in DOMAIN msg.fields :
       out.fields[i] =
         [msg.fields[i] EXCEPT !.value =
            IF msg.fields[i].tag \in ConfiguredTags(c)
            THEN PlaceholderOf(c) ELSE @]
  /\ SectionMasked(msg.header, out.header, msg.fields, c)
  /\ BodyMasked(msg.body, out.body, msg.fields, c)
  /\ SectionMasked(msg.trailer, out.trailer, msg.fields, c)

\* C21: maskRaw returns the text with the value of every segment whose tag is
\* configured, by number or by a field name of the definition, replaced by
\* the placeholder, the other segments, the order and the delimiter as they
\* were; maskParsed returns a new message in which the values of the
\* configured fields are the placeholder and every other value is as it was,
\* and leaves its argument alone.
C21_MaskExactlyConfigured ==
  [][\A c \in MaskInputs :
       /\ SharedMaskRaw(c) => RawMasked(raw[1], c, result'[1].r.masked)
       /\ SharedMaskParsed(c) =>
            /\ ParsedMasked(parsed[1], c, result'[1].r.message)
            /\ parsed' = parsed]_vars

\* the same for maskRaw alone
C21_MaskRawExactlyConfigured ==
  [][\A c \in MaskInputs :
       SharedMaskRaw(c) => RawMasked(raw[1], c, result'[1].r.masked)]_vars

\* the same for the configs whose tag numbers the definition knows
C21_MaskKnownTags ==
  [][\A c \in MaskInputs :
       (Range(c.tags) \subseteq DOMAIN Definition.fieldsByTag) =>
         /\ SharedMaskRaw(c) => RawMasked(raw[1], c, result'[1].r.masked)
         /\ SharedMaskParsed(c) =>
              /\ ParsedMasked(parsed[1], c, result'[1].r.message)
              /\ parsed' = parsed]_vars


(***************************************************************************)
(* Parsing under schemas whose header and trailer sections declare other   *)
(* names than the standard ones                                            *)
(***************************************************************************)
\* header and trailer sections: as in the schema, empty, Text, CheckSum and
\* Text in the header, SenderCompID in the trailer
SectionDefinitions ==
  { loadDefinitionFromXml(
      [Schema EXCEPT !.header = Element("", "", h, <<>>, <<>>),
                     !.trailer = Element("", "", t, <<>>, <<>>)]).definition :
      h \in { SchemaHeader.field, <<>>, << FieldRefEl("Text", "N") >>,
              << FieldRefEl("CheckSum", "Y"), FieldRefEl("Text", "N") >> },
      t \in { SchemaTrailer.field, <<>>, << FieldRefEl("Text", "N") >>,
              << FieldRefEl("SenderCompID", "N") >> } }
    \cup
    \* a header section that declares a repeating group of its own
    { loadDefinitionFromXml(
        [Schema EXCEPT !.header =
           Element("", "", SchemaHeader.field,
                   << Element("NoAllocs", "N",
                              << FieldRefEl("AllocAccount", "N"),
                                 FieldRefEl("AllocQty", "N") >>,
                              <<>>, <<>>) >>,
                   <<>>)]).definition }

\* "8=FIX.4.4", "9=5", "35=D", "49=S", "58=hi", "55=A", "999=x", "10=000",
\* "78=1", "79=a", "35=Z", "35=0", "49=", "56=T", "11=", "9=x", "9=0",
\* "10=": whole, without some of its segments, a counter of entries after
\* an unknown type, before the type and after the type, fields whose value
\* is the empty text, a body length that is no number, and a body length
\* of zero with an empty checksum
SectionTexts ==
  { SegmentsText(
      [i \in 1..Len(keep) |->
         << <<56, EQUALS, 70, 73, 88, 46, 52, 46, 52>>,
            <<57, EQUALS, 53>>,
            <<51, 53, EQUALS, 68>>,
            <<52, 57, EQUALS, 83>>,
            <<53, 56, EQUALS, 104, 105>>,
            <<53, 53, EQUALS, 65>>,
            <<57, 57, 57, EQUALS, 120>>,
            <<49, 48, EQUALS, 48, 48, 48>>,
            <<55, 56, EQUALS, 49>>,
            <<55, 57, EQUALS, 97>>,
            <<51, 53, EQUALS, 90>>,
            <<51, 53, EQUALS, 48>>,
            <<52, 57, EQUALS>>,
            <<53, 54, EQUALS, 84>>,
            <<49, 49, EQUALS>>,
            <<57, EQUALS, 120>>,
            <<57, EQUALS, 48>>,
            <<49, 48, EQUALS>> >>[keep[i]]], SOH) :
      keep \in { <<1, 2, 3, 4, 5, 6, 7, 8>>, <<3, 5, 8>>, <<8, 4, 7>>,
                 <<11, 9, 10, 8>>, <<9, 10, 3, 6>>, <<3, 9, 10>>,
                 <<12, 13, 14>>, <<3, 13, 14, 15, 6>>, <<12, 4, 14>>,
                 <<16, 12, 4, 14>>, <<1, 17, 12, 4, 14, 18>> } }

InitSections ==
  /\ builder = NoBuilder
  /\ thrown = NoError
  /\ input \in { [given |-> TRUE, definition |-> d] : d \in SectionDefinitions }
  /\ raw \in { <<t>> : t \in SectionTexts }
  /\ parsed = <<>>
  /\ result = <<>>
  /\ removed = <<>>

NextSections ==
  \/ SharedParse
  \/ SharedValidateRaw
  \/ SharedValidateJson

SpecSections == InitSections /\ [][NextSections]_vars

(***************************************************************************)
(* C22: the section of a top-level field                                   *)
(***************************************************************************)
StandardHeaderNames ==
  { "BeginString", "BodyLength", "MsgType", "SenderCompID", "TargetCompID",
    "MsgSeqNum", "SendingTime" }

DeclaredNames(section) == { section.fields[i].name : i \in DOMAIN section.fields }

\* the name is a key of that section and of no other
InSectionOnly(msg, name, section) ==
  /\ (name \in DOMAIN msg.header) <=> (section = "header")
  /\ (name \in DOMAIN msg.body) <=> (section = "body")
  /\ (name \in DOMAIN msg.trailer) <=> (section = "trailer")

NameOfTag(definition, tag) ==
  IF tag \in DOMAIN definition.fieldsByTag
  THEN definition.fieldsByTag[tag].name ELSE "Tag" \o ToString(tag)

\* C22 as stated: every top-level field is in exactly one section; the seven
\* standard header names are always in header and CheckSum always in
\* trailer, whatever the schema declares; another name declared in the
\* schema's header (trailer) is in header (trailer); everything else, the
\* unknown tags under Tag<n> included, is in body.
C22_CheckSumAlwaysTrailer ==
  (parsed # <<>> /\ input.given) =>
    \A i \in DOMAIN parsed[1].fields :
      /\ parsed[1].fields[i].name
           = NameOfTag(input.definition, parsed[1].fields[i].tag)
      /\ InSectionOnly(parsed[1], parsed[1].fields[i].name,
           IF parsed[1].fields[i].name \in StandardHeaderNames THEN "header"
           ELSE IF parsed[1].fields[i].name = "CheckSum" THEN "trailer"
           ELSE IF parsed[1].fields[i].name
                     \in DeclaredNames(input.definition.header)
           THEN "header"
           ELSE IF parsed[1].fields[i].name
                     \in DeclaredNames(input.definition.trailer)
           THEN "trailer"
           ELSE "body")

\* C22: every top-level field is in exactly one section; a field with one of
\* the seven standard header names or a name the schema's header declares is
\* in header, CheckSum included when the header declares it; otherwise
\* CheckSum and the names the schema's trailer declares are in trailer; every
\* other field, the unknown tags under Tag<n> included, is in body.
C22_SectionClassification ==
  (parsed # <<>> /\ input.given) =>
    \A i \in DOMAIN parsed[1].fields :
      /\ parsed[1].fields[i].name
           = NameOfTag(input.definition, parsed[1].fields[i].tag)
      /\ InSectionOnly(parsed[1], parsed[1].fields[i].name,
           IF parsed[1].fields[i].name
                \in StandardHeaderNames
                      \cup DeclaredNames(input.definition.header)
           THEN "header"
           ELSE IF parsed[1].fields[i].name
                     \in {"CheckSum"}
                           \cup DeclaredNames(input.definition.trailer)
           THEN "trailer"
           ELSE "body")

\* SenderCompID declared in the trailer only, and put in the header
C22_Witness ==
  /\ parsed # <<>> /\ input.given
  /\ DeclaredNames(input.definition.header) = {}
  /\ DeclaredNames(input.definition.trailer) = {"SenderCompID"}
  /\ DOMAIN parsed[1].header = {"BeginString", "BodyLength", "MsgType",
                                "SenderCompID"}
  /\ DOMAIN parsed[1].body = {"Text", "Symbol", "Tag999"}
  /\ DOMAIN parsed[1].trailer = {"CheckSum"}


(***************************************************************************)
(* C23: the counter field of a group                                       *)
(***************************************************************************)
\* the groups of a list and the groups nested in them
RECURSIVE GroupsWithin(_)
GroupsWithin(groups) ==
  UNION { {groups[i]} \cup GroupsWithin(groups[i].groups) :
            i \in DOMAIN groups }

\* every group of the model: of its messages, components, header and trailer
GroupsOfDefinition(definition) ==
  UNION ({ GroupsWithin(definition.messagesByType[t].groups) :
             t \in DOMAIN definition.messagesByType }
         \cup { GroupsWithin(definition.components[c].groups) :
                  c \in DOMAIN definition.components }
         \cup { GroupsWithin(definition.header.groups),
                GroupsWithin(definition.trailer.groups) })

\* the statement as written: counterField is the name of the group's first
\* declared field
C23_CounterIsFirstField ==
  FromXmlReturned =>
    \A g \in GroupsOfDefinition(result[1].r) :
      Len(g.fields) > 0 => g.counterField = g.fields[1].name

\* C23: in every definition the loader returns, the counterField of each
\* group, nested groups included, is the group's own name, the name of the
\* field that carries the number of entries
C23_CounterIsGroupName ==
  FromXmlReturned =>
    \A g \in GroupsOfDefinition(result[1].r) : g.counterField = g.name

\* a definition is returned whose groups include NoAllocs, whose first
\* declared field is AllocAccount, and the nested NoPartySubIDs
C23_Witness ==
  /\ FromXmlReturned
  /\ \E g \in GroupsOfDefinition(result[1].r) :
       /\ g.name = "NoAllocs" /\ g.counterField = "NoAllocs"
       /\ g.fields[1].name = "AllocAccount"
  /\ \E g \in GroupsOfDefinition(result[1].r) : g.name = "NoPartySubIDs"


(***************************************************************************)
(* C24: a counter of entries met without a message definition              *)
(***************************************************************************)
\* the pairs parseMessage reads
PairsRead == splitFields(raw[1], detectDelimiter(raw[1]))

\* the first pair that gives a message type of the definition, the number
\* of pairs and one where there is none: before it msgDef is undefined
FirstTyped(pairs, definition) ==
  LET typed == { i \in DOMAIN pairs :
                   /\ pairs[i].tag = 35
                   /\ pairs[i].value \in DOMAIN definition.messagesByType }
  IN  IF typed = {} THEN Len(pairs) + 1
      ELSE CHOOSE i \in typed : \A j \in typed : i <= j

\* the counters of the groups the header section declares, itself or
\* through its components
HeaderGroupCounters(definition) ==
  { g.counterField : g \in Range(definition.header.groups) }
    \cup UNION { { g.counterField :
                     g \in Range(definition.components[c.name].groups) } :
                 c \in { r \in Range(definition.header.components) :
                           r.name \in DOMAIN definition.components } }

\* the first upto pairs are top-level fields of the message, one by one
TopLevelPrefix(pairs, upto, msg) ==
  \A i \in 1..upto :
    /\ i <= Len(msg.fields)
    /\ msg.fields[i].tag = pairs[i].tag
    /\ msg.fields[i].value = pairs[i].value

\* the statement as written: before a message type of the definition is
\* read no group is resolved
C24_NeverResolvedUntyped ==
  (parsed # <<>> /\ raw # <<>> /\ input.given) =>
    /\ TopLevelPrefix(PairsRead, FirstTyped(PairsRead, input.definition) - 1,
                      parsed[1])
    /\ FirstTyped(PairsRead, input.definition) = Len(PairsRead) + 1 =>
         \A n \in DOMAIN parsed[1].body : parsed[1].body[n].kind = "value"

\* C24: the pairs read before a message type of the definition are
\* top-level fields, stored as plain values, counters of entries included,
\* unless one of them is the counter of a group the header section declares;
\* with no such message type in the text, only the counters of the header
\* section's groups are stored as groups
C24_UntypedResolvesHeaderGroupsOnly ==
  (parsed # <<>> /\ raw # <<>> /\ input.given) =>
    /\ (\A i \in 1..(FirstTyped(PairsRead, input.definition) - 1) :
          NameOfTag(input.definition, PairsRead[i].tag)
            \notin HeaderGroupCounters(input.definition))
         => TopLevelPrefix(PairsRead,
                           FirstTyped(PairsRead, input.definition) - 1,
                           parsed[1])
    /\ FirstTyped(PairsRead, input.definition) = Len(PairsRead) + 1 =>
         \A n \in DOMAIN parsed[1].body :
           parsed[1].body[n].kind = "group"
             => n \in HeaderGroupCounters(input.definition)

\* "35=Z", "78=1", "79=a", "10=000" under a header section without groups:
\* NoAllocs, a NUMINGROUP field, is a plain value of the body
C24_Witness ==
  /\ parsed # <<>> /\ raw # <<>> /\ input.given
  /\ HeaderGroupCounters(input.definition) = {}
  /\ FirstTyped(PairsRead, input.definition) = Len(PairsRead) + 1
  /\ parsed[1].msgType = <<90>>
  /\ "NoAllocs" \in DOMAIN parsed[1].body
  /\ parsed[1].body["NoAllocs"] = Scalar(<<49>>)
  /\ input.definition.fieldsByName["NoAllocs"].type = "NUMINGROUP"


(***************************************************************************)
(* C25: a mandatory header field that is missing                           *)
(***************************************************************************)
\* validateParsed has answered for the parsed message, whose type is known
ParsedOfKnownTypeValidated ==
  /\ result # <<>> /\ result[1].by = "validateParsed"
  /\ parsed # <<>> /\ input.given
  /\ parsed[1].msgType \in DOMAIN input.definition.messagesByType

\* an error of the result names the field with the message
Reported(r, name, message) ==
  \E i \in DOMAIN r.errors :
    r.errors[i].field = <<name>> /\ r.errors[i].message = message

\* the mandatory header fields validateParsed checks
CheckedHeaderNames(definition) ==
  Range(collectRequiredFields(definition.header, definition))
    \ {"BeginString", "BodyLength", "MsgType"}

\* C25, the statement as written: a mandatory header field is reported
\* missing exactly when the header map has no entry for it
C25_HeaderMissingIffAbsent ==
  ParsedOfKnownTypeValidated =>
    \A n \in CheckedHeaderNames(input.definition) :
      Reported(result[1].r, n, "Required header field is missing")
        <=> n \notin DOMAIN parsed[1].header

\* what the code does for the header: missing when absent or empty
C25_HeaderMissingIffAbsentOrEmpty ==
  ParsedOfKnownTypeValidated =>
    \A n \in CheckedHeaderNames(input.definition) :
      Reported(result[1].r, n, "Required header field is missing")
        <=> (n \notin DOMAIN parsed[1].header \/ parsed[1].header[n] = <<>>)

\* what the code does for the body: missing when absent
C25_BodyMissingIffAbsent ==
  ParsedOfKnownTypeValidated =>
    \A n \in Range(collectRequiredFields(
                     input.definition.messagesByType[parsed[1].msgType],
                     input.definition)) :
      Reported(result[1].r, n, "Required field is missing for message type")
        <=> n \notin DOMAIN parsed[1].body

\* "35=D", "49=", "56=T", "11=", "55=A": SenderCompID and ClOrdID are both
\* present and empty, the first is reported and the second is not
C25_EmptyReportedInHeaderOnly ==
  /\ ParsedOfKnownTypeValidated
  /\ "SenderCompID" \in DOMAIN parsed[1].header
  /\ parsed[1].header["SenderCompID"] = <<>>
  /\ Reported(result[1].r, "SenderCompID", "Required header field is missing")
  /\ "ClOrdID" \in DOMAIN parsed[1].body
  /\ parsed[1].body["ClOrdID"] = Scalar(<<>>)
  /\ ~Reported(result[1].r, "ClOrdID",
               "Required field is missing for message type")


(***************************************************************************)
(* C26: the message type of a built text                                   *)
(***************************************************************************)
\* the segments of the built text
BuiltSegments == Split(raw[1], SOH)

\* the segments that are a message-type field
TypeSegments ==
  { i \in DOMAIN BuiltSegments :
      StartsWithAt(BuiltSegments[i], <<51, 53, EQUALS>>, 0) }

\* the statement as written: whatever was set or cleared, the built text
\* has one message-type field, that of the type the builder was created
\* for, first in the body
C26_TypeOfBuilderAlways ==
  (builder.exists /\ raw # <<>>) =>
    /\ TypeSegments = {3}
    /\ BuiltSegments[3] = <<51, 53, EQUALS>> \o builder.msgDef.msgtype

\* C26: the built text has the message-type field the map holds under tag
\* 35, once and first in the body: the type the builder was created for
\* while tag 35 is as the constructor left it, the value set for it
\* otherwise, and no such field when tag 35 is cleared or empty
C26_TypeOfMap ==
  (builder.exists /\ raw # <<>>) =>
    IF TypeSet(builder.fieldValues)
    THEN /\ TypeSegments = {3}
         /\ BuiltSegments[3] = <<51, 53, EQUALS>> \o builder.fieldValues[35]
    ELSE TypeSegments = {}

\* a builder for NewOrderSingle with ClOrdID and SenderCompID set and its
\* type untouched has built a text whose third segment is "35=D"
C26_Witness ==
  /\ builder.exists /\ raw # <<>>
  /\ builder.msgDef.msgtype = <<68>>
  /\ {11, 35, 49} \subseteq DOMAIN builder.fieldValues
  /\ builder.fieldValues[35] = builder.msgDef.msgtype
  /\ TypeSegments = {3}
  /\ BuiltSegments[3] = <<51, 53, EQUALS, 68>>


(***************************************************************************)
(* C27: build is a function of the map                                     *)
(***************************************************************************)
\* the body of the text of a map: the type when it has one, then the other
\* fields by ascending tag
BodyOfMap(fieldValues) ==
  IF TypeSet(fieldValues)
  THEN TypeField(fieldValues) \o AscendingFields(fieldValues)
  ELSE IF OtherTags(fieldValues) = {} THEN <<SOH>>
  ELSE AscendingFields(fieldValues)

\* the text before field 10
HeadOfMap(fieldValues, beginString) ==
  <<56, EQUALS>> \o beginString \o <<SOH>>
    \o <<57, EQUALS>> \o String(Len(BodyOfMap(fieldValues))) \o <<SOH>>
    \o BodyOfMap(fieldValues)

\* the framed text of a map
TextOfHead(head) ==
  head \o CHECKSUM_TAG
       \o PadStart3(String(SumCodes(head, 1, Len(head)) % 256)) \o <<SOH>>

RECURSIVE ReadIndexes(_, _, _, _)
ReadIndexes(pairs, st, definition, fuel) ==
  IF st.idx < Len(pairs) /\ fuel > 0
  THEN <<st.idx>> \o ReadIndexes(pairs, ParseStep(pairs, st, definition),
                                 definition, fuel - 1)
  ELSE <<st.idx>>

\* the indexes start at 0, grow at each iteration and end at n
AdvancesTo(indexes, n) ==
  /\ indexes[1] = 0
  /\ indexes[Len(indexes)] = n
  /\ \A k \in 1..(Len(indexes) - 1) : indexes[k] < indexes[k + 1]

\* the values a list of entries stores, those of nested groups and their
\* counters included
RECURSIVE LeafCount(_)
RECURSIVE EntryLeaves(_, _)
EntryLeaves(entry, names) ==
  IF names = {} THEN 0
  ELSE LET n == CHOOSE x \in names : TRUE
       IN  (IF entry[n].kind = "group"
            THEN 1 + LeafCount(entry[n].entries) ELSE 1)
           + EntryLeaves(entry, names \ {n})

LeafCount(entries) ==
  IF entries = <<>> THEN 0
  ELSE EntryLeaves(Head(entries), DOMAIN Head(entries))
         + LeafCount(Tail(entries))

\* the result of a decode from the position ends there or further on, not
\* past the last of the n pairs, and stores no more values than were read
DecodeInBounds(r, startIdx, count, n) ==
  /\ r.nextIdx \in startIdx..n
  /\ Len(r.entries) <= count
  /\ LeafCount(r.entries) <= r.nextIdx - startIdx

\* the groups of the definition that have nested groups, each with the
\* counters of its nested groups among its fields: the decode of such a
\* group reaches its nested decodes
CountersAsFields ==
  { [g EXCEPT !.fields =
        @ \o [i \in DOMAIN g.groups |->
                [name |-> g.groups[i].counterField, required |-> FALSE]]] :
      g \in { h \in GroupsOfDefinition(Definition) : h.groups # <<>> } }

\* the read index of the parse of the pairs into the message
ReadsAdvance(pairs, msg, definition, groups) ==
  /\ AdvancesTo(ReadIndexes(pairs, ParseStart, definition, Len(pairs) + 1),
                Len(pairs))
  /\ \A startIdx \in 0..Len(pairs), count \in {1, MaxCount} :
       \A g \in groups :
         DecodeInBounds(parseGroup(pairs, startIdx, count, g, definition),
                        startIdx, count, Len(pairs))
  /\ Len(msg.fields) + EntryLeaves(msg.body, DOMAIN msg.body)
       - Cardinality(DOMAIN msg.body) <= Len(pairs)

\* C28: parse ends; the read index of the top-level loop grows at each
\* iteration, by one pair or by a counter and the pairs its group decode
\* read, and ends at the number of pairs; a group decode from any position,
\* for any group and count, its first field belonging to the group or not,
\* ends between the position and the number of pairs; the top-level fields
\* and the values stored in groups are no more than the pairs
C28_ReadIndexAdvances ==
  (parsed # <<>> /\ removed = <<>> /\ raw # <<>>) =>
    ReadsAdvance(PairsRead, parsed[1], Definition,
                 GroupsOfDefinition(Definition) \cup CountersAsFields)

\* a text with two NoAllocs entries of two fields each and a tail: the
\* group decode read four pairs, the others are top-level fields
C28_Witness ==
  /\ parsed # <<>> /\ removed = <<>> /\ raw # <<>>
  /\ "NoAllocs" \in DOMAIN parsed[1].body
  /\ parsed[1].body["NoAllocs"].kind = "group"
  /\ Len(parsed[1].body["NoAllocs"].entries) = 2
  /\ LeafCount(parsed[1].body["NoAllocs"].entries) = 4
  /\ Len(parsed[1].fields) + 4 = Len(PairsRead)
  /\ parsed[1].fields[Len(parsed[1].fields)].tag = 10

\* a decode with nested decodes: two NoPartyIDs entries, each with a
\* NoPartySubIDs entry, six pairs read
C28_NestedDecodeReached ==
  /\ parsed # <<>> /\ removed = <<>> /\ raw # <<>>
  /\ \E g \in CountersAsFields :
       /\ parseGroup(PairsRead, 9, 2, g, Definition).nextIdx = 15
       /\ LeafCount(parseGroup(PairsRead, 9, 2, g, Definition).entries) = 6


(***************************************************************************)
(* C29: valid, errors and warnings                                         *)
(***************************************************************************)
\* a validation has answered
Validated ==
  result # <<>> /\ result[1].by \in {"validateRaw", "validateParsed"}

LastValueOf(pairs, tag) ==
  IF \A i \in DOMAIN pairs : pairs[i].tag # tag THEN <<>>
  ELSE << pairs[CHOOSE i \in DOMAIN pairs :
                  /\ pairs[i].tag = tag
                  /\ \A j \in DOMAIN pairs : pairs[j].tag = tag => j <= i].value >>

\* the text declares no checksum: no field 10, or an empty one
NoChecksumDeclared(pairs) ==
  LastValueOf(pairs, 10) \in { <<>>, << <<>> >> }

\* the text declares no body length: no field 9, zero, or no number
NoBodyLengthDeclared(pairs) ==
  \/ LastValueOf(pairs, 9) = <<>>
  \/ parseInt(LastValueOf(pairs, 9)[1]).isNaN
  \/ parseInt(LastValueOf(pairs, 9)[1]).n = 0

\* validateRaw has answered for a text that can be parsed
RawValidated ==
  /\ result # <<>> /\ result[1].by = "validateRaw"
  /\ raw # <<>> /\ input.given

\* what C30 says of the answer r for the pairs of the text
FramingOnlyDeclared(pairs, r, structural) ==
  /\ NoChecksumDeclared(pairs) =>
       /\ ~\E i \in DOMAIN r.errors : r.errors[i].message = "Invalid checksum"
       /\ r.errors = structural.errors
       /\ r.valid = structural.valid
  /\ NoBodyLengthDeclared(pairs) =>
       /\ ~\E i \in DOMAIN r.warnings :
             r.warnings[i].message = "BodyLength mismatch"
       /\ r.warnings = structural.warnings

C30_TextLengthReached ==
  /\ RawValidated
  /\ LastValueOf(PairsRead, 9) = << <<120>> >>
  /\ <<9>> \in IssueTags(result[1].r.errors)
  /\ <<9>> \notin IssueTags(result[1].r.warnings)

\* "8=FIX.4.4", "9=0", "35=0", "49=S", "56=T", "10=": valid
C30_ZeroLengthReached ==
  /\ RawValidated
  /\ LastValueOf(PairsRead, 9) = << <<48>> >>
  /\ LastValueOf(PairsRead, 10) = << <<>> >>
  /\ result[1].r.valid

====
